---------------------------- MODULE Spec2Model ----------------------------
(***************************************************************************)
(* A model of legend-pygeom-hades: the assembly orchestrator `construct`   *)
(* (src/src/pygeomhades/core.py), the builders' call signatures            *)
(* (src/src/pygeomhades/create_volumes.py) and the metadata merge          *)
(* (src/src/pygeomhades/utils.py).                                         *)
(*                                                                         *)
(* Python values are encoded as follows.  None is the string "None"; a     *)
(* float is the string of its literal ("0.9"); a local name that has not   *)
(* been assigned is absent from the set `bound`; an absent dictionary key  *)
(* is the empty sequence << >> and a present one a one-element sequence    *)
(* holding its value.                                                      *)
(***************************************************************************)
EXTENDS Integers, Sequences, FiniteSets, TLC

VARIABLES
    \* ---- construct(): arguments
    pc,              \* position inside construct(), "idle" between calls
    assemblies,      \* argument `assemblies`
    config,          \* argument `config`, already a mapping (or None)
    public_geometry, \* argument `public_geometry`
    ged_name,        \* argument `ged_name`
    \* ---- construct(): locals and what it touches
    lmeta,           \* local `lmeta`: "None" or "meta"
    acq,             \* what happened at LegendMetadata(lazy=True)
    source_record,   \* the record the metadata source holds for its detector
    ged_diode_meta,  \* local `ged_diode_meta`: "unbound" or a reference "source"
    warned,          \* log.warning("CONSTRUCTING GEOMETRY FROM PUBLIC DATA ONLY")
    reg,             \* local `reg`, the registry (scene graph)
    bound,           \* the *_lv locals assigned so far
    calls,           \* builders called so far, in call order
    error,           \* the exception leaving construct(), "none" if none
    failedAt,        \* the step that raised
    returned,        \* construct() executed `return reg`
    world_solid,     \* local `world`, the solid of the world volume
    world_material,  \* local `world_material`
    \* ---- utils.merge_configs(): the record being merged and its history
    diode_meta,      \* the dictionary passed as `diode_meta`
    first_val,       \* its enrichment value before the first merge
    merges,          \* number of merges applied to it
    last_merge,      \* the (extra_name, extra_meta, outcome) of the last merge
    \* ---- utils.amend_gdml(): arguments, locals and the temporary file
    a_pc,            \* position inside amend_gdml(), "idle" between calls
    template,        \* the text dummy_gdml_path.read_text() returns
    replacements,    \* argument `replacements`, in dictionary (insertion) order
    write_file,      \* argument `write_file`
    idx,             \* number of items of `replacements` the loop has consumed
    gdml_text,       \* local `gdml_text`
    temp_open,       \* the NamedTemporaryFile exists on disk
    temp_acquired,   \* temporary files created by this call
    temp_released,   \* temporary files closed (and so deleted) by this call
    parsed,          \* the texts handed to gdml.Reader, in order
    a_error,         \* the exception leaving amend_gdml(), "none" if none
    \* ---- the builders of create_volumes.py
    b_input,         \* the builder, its variant argument and its dimension record
    b_out,           \* what the builder gave on each path, "none" until called
    \* ---- utils.parse_measurement()
    legacy_label,    \* the one source label the legacy rename applies to
    fields,          \* the four fields the measurement identifier is made of
    measurement,     \* argument `measurement`, a text
    parse_out,       \* what parse_measurement returned, "none" until called
    \* ---- metadata.py: the placeholder proxies
    objects,         \* the `production` object of each stored reference record
    results,         \* the records the lookups returned, oldest first
    last_call,       \* the last call on a proxy and how it ended
    \* ---- create_volumes.py: create_source and create_source_holder
    s_input,         \* the builder called and its arguments
    s_out            \* what it returned or raised, "none" until called

vars == <<pc, assemblies, config, public_geometry, ged_name, lmeta, acq,
          source_record, ged_diode_meta, warned, reg, bound, calls, error,
          failedAt, returned, world_solid, world_material, diode_meta, first_val, merges, last_merge,
          a_pc, template, replacements, write_file, idx, gdml_text, temp_open,
          temp_acquired, temp_released, parsed, a_error, b_input, b_out,
          legacy_label, fields, measurement, parse_out, objects, results,
          last_call, s_input, s_out>>

constructVars == <<pc, assemblies, config, public_geometry, ged_name, lmeta, acq,
                   source_record, ged_diode_meta, warned, reg, bound, calls,
                   error, failedAt, returned, world_solid, world_material>>

mergeVars == <<diode_meta, first_val, merges, last_merge>>
amendVars == <<a_pc, template, replacements, write_file, idx, gdml_text, temp_open,
               temp_acquired, temp_released, parsed, a_error>>
buildVars == <<b_input, b_out>>
parseVars == <<legacy_label, fields, measurement, parse_out>>
proxyVars == <<objects, results, last_call>>
sourceVars == <<s_input, s_out>>
laterVars == <<parseVars, proxyVars, sourceVars>>

(***************************************************************************)
(* core.py: the assemblies and the order construct() visits them in.       *)
(***************************************************************************)
DEFAULT_ASSEMBLIES ==
    {"detector", "wrap", "holder", "bottom_plate", "lead_castle", "source",
     "source_holder", "cryostat", "vacuum_cavity"}

\* The `if "<name>" in assemblies:` blocks of construct(), top to bottom.
BuildOrder ==
    <<"vacuum_cavity", "detector", "wrap", "holder", "bottom_plate",
      "lead_castle", "source", "source_holder", "cryostat">>

\* A name construct() has no block for.
UnknownName == "shield"

AssemblyNames == DEFAULT_ASSEMBLIES \cup {UnknownName}

IndexOf(a) == CHOOSE i \in 1..Len(BuildOrder) : BuildOrder[i] = a

\* The statement after the block of assembly a.
NextStep(a) ==
    IF IndexOf(a) = Len(BuildOrder) THEN "view" ELSE BuildOrder[IndexOf(a) + 1]

\* The local each block assigns the builder's result to.
LvVar(a) ==
    CASE a = "vacuum_cavity" -> "cavity_lv"
      [] a = "detector"      -> "detector_lv"
      [] a = "wrap"          -> "wrap_lv"
      [] a = "holder"        -> "holder_lv"
      [] a = "bottom_plate"  -> "plate_lv"
      [] a = "lead_castle"   -> "castle_lv"
      [] a = "source"        -> "source_lv"
      [] a = "source_holder" -> "s_holder_lv"
      [] a = "cryostat"      -> "cryo_lv"

\* The name given to geant4.PhysicalVolume in each block.
PvName(a) ==
    CASE a = "vacuum_cavity" -> "cavity_pv"
      [] a = "detector"      -> "hpge_pv"
      [] a = "wrap"          -> "wrap_pv"
      [] a = "holder"        -> "holder_pv"
      [] a = "bottom_plate"  -> "plate_pv"
      [] a = "lead_castle"   -> "castle_pv"
      [] a = "source"        -> "source_pv"
      [] a = "source_holder" -> "s_holder_pv"
      [] a = "cryostat"      -> "cryo_pv"

MotherVarWorld(a) == "world_lv"

\* The mother volume each block passes to geant4.PhysicalVolume.
MotherVar(a) ==
    IF a \in {"detector", "wrap", "holder"} THEN "cavity_lv" ELSE "world_lv"

(***************************************************************************)
(* create_volumes.py: each builder's parameters, in order, and which of    *)
(* them have no default.                                                   *)
(***************************************************************************)
P(name, required) == [name |-> name, required |-> required]

\* create_detector is imported by core.py but defined in no file of src/:
\* its parameters are taken from the spec's builder interface
\* build(dimensions, from_template), reduced to what the call passes.
CreateDetectorParams == <<P("from_gdml", FALSE)>>

BuilderParams(a) ==
    CASE a = "vacuum_cavity" ->
            <<P("cryostat_metadata", TRUE), P("registry", TRUE)>>
      [] a = "detector" -> CreateDetectorParams
      [] a = "wrap" ->
            <<P("wrap_metadata", TRUE), P("from_gdml", FALSE)>>
      [] a = "holder" ->
            <<P("holder_meta", TRUE), P("det_type", TRUE), P("from_gdml", FALSE)>>
      [] a = "bottom_plate" ->
            <<P("plate_metadata", TRUE), P("from_gdml", FALSE)>>
      [] a = "lead_castle" ->
            <<P("table_num", TRUE), P("castle_dimensions", TRUE),
              P("from_gdml", FALSE), P("volume_name", FALSE)>>
      [] a = "source" ->
            <<P("source_type", TRUE), P("source_dims", TRUE),
              P("holder_dims", TRUE), P("from_gdml", FALSE)>>
      [] a = "source_holder" ->
            <<P("source_type", TRUE), P("holder_dims", TRUE), P("source_z", TRUE),
              P("meas_type", FALSE), P("from_gdml", FALSE)>>
      [] a = "cryostat" ->
            <<P("cryostat_meta", TRUE), P("from_gdml", FALSE)>>

(***************************************************************************)
(* core.py: the arguments construct() passes in each builder call.         *)
(***************************************************************************)
\* Number of positional arguments of the call.
CallPositional(a) ==
    IF a \in {"vacuum_cavity", "wrap", "holder"} THEN 1 ELSE 0

\* Keyword arguments of the call.
CallKeywords(a) ==
    IF a = "vacuum_cavity" THEN {} ELSE {"from_gdml"}

\* Python's argument binding: positionals fill the first parameters, a
\* keyword fills the parameter of its name.
BoundParams(a) ==
    {BuilderParams(a)[i].name :
        i \in 1..(IF CallPositional(a) < Len(BuilderParams(a))
                  THEN CallPositional(a) ELSE Len(BuilderParams(a)))}
    \cup CallKeywords(a)

ParamNames(a) == {BuilderParams(a)[i].name : i \in 1..Len(BuilderParams(a))}

MissingArgs(a) ==
    {BuilderParams(a)[i].name :
        i \in {j \in 1..Len(BuilderParams(a)) : BuilderParams(a)[j].required}}
    \ BoundParams(a)

\* The call binds: no required parameter is left without an argument, no
\* keyword names a parameter the builder lacks, no positional is in excess.
CallMatches(a) ==
    /\ MissingArgs(a) = {}
    /\ CallKeywords(a) \subseteq ParamNames(a)
    /\ CallPositional(a) <= Len(BuilderParams(a))


(***************************************************************************)
(* The inputs construct() is called with, and the metadata source.         *)
(***************************************************************************)
\* "B00000B" is the default of the parameter ged_name.
GedNames == {"B00000B", "Z00000Z"}

\* The detectors the metadata source has a record for.
SourceKeys == {"B00000B"}

\* config: None, a mapping without the detector, a mapping with it.
Config(isNone, keys) == [isNone |-> isNone, keys |-> keys]

ConfigChoices ==
    {Config(TRUE, {}), Config(FALSE, {}), Config(FALSE, {"B00000B"})}

\* config[k]: the per-detector configuration, identified by its key.
ConfigValue(cfg, k) == [of |-> k]

\* A diode record as the metadata source holds it: production.enrichment.val,
\* whether it carries the outer/inner sub-records create_wrap reads, and the
\* "hades" key (absent until a merge adds it).
DiodeRecord(name, val, wrapDims) ==
    [name |-> name, val |-> val, has_wrap_dims |-> wrapDims, hades |-> << >>]

SourceRecords ==
    {DiodeRecord("B00000B", v, w) : v \in {"None", "0.92"}, w \in BOOLEAN}

(***************************************************************************)
(* What a builder gives back, and the solids of pyg4ometry.  Lengths are   *)
(* in hundredths of a millimetre.                                          *)
(***************************************************************************)
NotCalled == [status |-> "none"]
Raise(err) == [error |-> err, status |-> "error"]
LogicalVolume(solid, material, name) ==
    [name |-> name, status |-> "ok", solid |-> solid, material |-> material]

GenericPolycone(name, pR, pZ) ==
    [name |-> name, pR |-> pR, pZ |-> pZ, kind |-> "GenericPolycone"]
Box(name, pX, pY, pZ) == [name |-> name, pZ |-> pZ, kind |-> "Box", pX |-> pX, pY |-> pY]
Tubs(name, pRMin, pRMax, pDz) ==
    [name |-> name, kind |-> "Tubs", pRMin |-> pRMin, pRMax |-> pRMax, pDz |-> pDz]
Subtraction(name, obj1, obj2, tra2) ==
    [name |-> name, kind |-> "Subtraction", obj1 |-> obj1, obj2 |-> obj2, tra2 |-> tra2]
Union(name, obj1, obj2, tra2) ==
    [name |-> name, kind |-> "Union", obj1 |-> obj1, obj2 |-> obj2, tra2 |-> tra2]

\* geant4.solid.Box("world", 10, 10, 10, reg, "m")
WorldBox == Box("world", 1000000, 1000000, 1000000)

\* geant4.MaterialPredefined("G4_AIR")
WorldMaterial == "G4_AIR"

(***************************************************************************)
(* The registry (scene graph) and the operations construct() applies.      *)
(***************************************************************************)
NoRegistry == [created |-> FALSE, world |-> "none", lvs |-> {}, pvs |-> << >>]

\* geant4.Registry()
NewRegistry == [created |-> TRUE, world |-> "none", lvs |-> {}, pvs |-> << >>]

\* geant4.LogicalVolume(world, world_material, "world_lv", reg)
AddLogicalVolume(r, lv) == [r EXCEPT !.lvs = @ \cup {lv}]

SetWorldSkipped(r, lv) == r

\* reg.setWorld(world_lv)
SetWorld(r, lv) == [r EXCEPT !.world = lv]

\* geant4.PhysicalVolume(rot, pos, lv, name, mother, registry=reg)
AddPhysicalVolume(r, name, lv, mother) ==
    [r EXCEPT !.lvs = @ \cup {lv},
              !.pvs = Append(@, [name |-> name, lv |-> lv, mother |-> mother])]

(***************************************************************************)
(* core.py, lines 82-92: acquiring the metadata source and the guard.      *)
(***************************************************************************)
\* What `with contextlib.suppress(GitCommandError): lmeta = LegendMetadata(...)`
\* can do; the statement is not executed when public_geometry is set.
AcquireOutcomes(pg) == IF pg THEN {"skipped"} ELSE {"ok", "GitCommandError"}

MustRefuseInverted(lm, pg) == lm = "None" /\ pg

\* `if lmeta is None and not public_geometry: raise RuntimeError(msg)`
MustRefuse(lm, pg) == lm = "None" /\ ~pg

(***************************************************************************)
(* core.merge_configs, lines 44-49.                                        *)
(***************************************************************************)
\* The first statement that raises, or "ok".
CoreMergeOutcome(lm, cfg, gn) ==
    IF lm = "None" THEN "AttributeError"        \* None.hardware
    ELSE IF gn \notin SourceKeys THEN "KeyError" \* diodes[ged_name]
    ELSE IF cfg.isNone THEN "TypeError"          \* None[ged_name]
    ELSE IF gn \notin cfg.keys THEN "KeyError"   \* config[ged_name]
    ELSE "ok"

\* ged_diode_meta.update({"hades": {"dimensions": ged_hades_config}}): the
\* dictionary the lookup returned is updated in place.
CoreMergeUpdate(rec, cfgval) ==
    [rec EXCEPT !.hades = <<[dimensions |-> cfgval]>>]

(***************************************************************************)
(* core.py, lines 107-197: one `if "<name>" in assemblies:` block.         *)
(***************************************************************************)
SelectedAlways(a, S) == TRUE

\* `"<name>" in assemblies`
Selected(a, S) == a \in S

\* What the builder's body does once the call has bound: create_wrap reads
\* wrap_metadata.outer and wrap_metadata.inner from the record it is given.
BuilderBody(a, rec) ==
    IF a = "wrap" /\ ~rec.has_wrap_dims THEN "AttributeError" ELSE "ok"

\* The outcome of the block of assembly a: skipped, the exception raised by
\* the call, by the builder or by the placement, or "placed".
BlockOutcome(a, S, bnd, rec) ==
    IF ~Selected(a, S) THEN "skip"
    ELSE IF ~CallMatches(a) THEN "TypeError"
    ELSE IF BuilderBody(a, rec) # "ok" THEN BuilderBody(a, rec)
    ELSE IF MotherVar(a) \notin bnd \cup {LvVar(a)} THEN "UnboundLocalError"
    ELSE "placed"

Raises(out) == out \notin {"skip", "placed"}

\* The builder returned and its result was assigned to the block's local.
BuilderReturned(out) == out \in {"UnboundLocalError", "placed"}

AfterBlockSwallow(a, out) == NextStep(a)

\* No block is inside a try statement: an exception leaves construct().
AfterBlock(a, out) == IF Raises(out) THEN "failed" ELSE NextStep(a)

(***************************************************************************)
(* construct(): one action per statement group.                            *)
(***************************************************************************)
ConstructIdle ==
    /\ pc = "idle"
    /\ assemblies = {}
    /\ config = Config(TRUE, {})
    /\ public_geometry = FALSE
    /\ ged_name = "B00000B"
    /\ lmeta = "None"
    /\ acq = "none"
    /\ source_record = << >>
    /\ ged_diode_meta = "unbound"
    /\ warned = FALSE
    /\ reg = NoRegistry
    /\ bound = {}
    /\ calls = << >>
    /\ error = "none"
    /\ failedAt = "none"
    /\ returned = FALSE
    /\ world_solid = "unbound"
    /\ world_material = "unbound"

\* construct(assemblies, config, public_geometry, ged_name), lines 52-82.
Call(S, cfg, pg, gn) ==
    /\ pc = "idle"
    /\ pc' = "acquire"
    /\ assemblies' = S
    /\ config' = cfg
    /\ public_geometry' = pg
    /\ ged_name' = gn
    /\ UNCHANGED <<lmeta, acq, source_record, ged_diode_meta, warned, reg,
                   bound, calls, error, failedAt, returned>>
    /\ UNCHANGED <<world_solid, world_material>>
    /\ UNCHANGED <<mergeVars, amendVars, buildVars, laterVars>>

\* Lines 82-85.
Acquire ==
    /\ pc = "acquire"
    /\ \E out \in AcquireOutcomes(public_geometry), rec \in SourceRecords :
          /\ acq' = out
          /\ lmeta' = IF out = "ok" THEN "meta" ELSE "None"
          /\ source_record' = IF out = "ok" THEN <<rec>> ELSE << >>
    /\ pc' = "guard"
    /\ UNCHANGED <<assemblies, config, public_geometry, ged_name,
                   ged_diode_meta, warned, reg, bound, calls, error, failedAt,
                   returned>>
    /\ UNCHANGED <<world_solid, world_material>>
    /\ UNCHANGED <<mergeVars, amendVars, buildVars, laterVars>>

\* Lines 88-92.
Guard ==
    /\ pc = "guard"
    /\ pc' = IF MustRefuse(lmeta, public_geometry) THEN "failed" ELSE "merge"
    /\ error' = IF MustRefuse(lmeta, public_geometry) THEN "RuntimeError" ELSE "none"
    /\ failedAt' = IF MustRefuse(lmeta, public_geometry) THEN "guard" ELSE "none"
    /\ warned' = (~MustRefuse(lmeta, public_geometry) /\ lmeta = "None")
    /\ UNCHANGED <<assemblies, config, public_geometry, ged_name, lmeta, acq,
                   source_record, ged_diode_meta, reg, bound, calls, returned>>
    /\ UNCHANGED <<world_solid, world_material>>
    /\ UNCHANGED <<mergeVars, amendVars, buildVars, laterVars>>

\* Line 96: ged_diode_meta = merge_configs(ged_name, lmeta, config).
MergeConfigs ==
    /\ pc = "merge"
    /\ LET out == CoreMergeOutcome(lmeta, config, ged_name) IN
          /\ pc' = IF out = "ok" THEN "dims" ELSE "failed"
          /\ error' = IF out = "ok" THEN "none" ELSE out
          /\ failedAt' = IF out = "ok" THEN "none" ELSE "merge"
          /\ source_record' =
                IF out = "ok"
                THEN <<CoreMergeUpdate(source_record[1], ConfigValue(config, ged_name))>>
                ELSE source_record
          /\ ged_diode_meta' = IF out = "ok" THEN "source" ELSE "unbound"
    /\ UNCHANGED <<assemblies, config, public_geometry, ged_name, lmeta, acq,
                   warned, reg, bound, calls, returned>>
    /\ UNCHANGED <<world_solid, world_material>>
    /\ UNCHANGED <<mergeVars, amendVars, buildVars, laterVars>>

\* Line 97: dim.update_cryostat_dims(ged_diode_meta).  The module
\* fixed_dimensions is in no file of src/; the call's result is discarded and
\* nothing the model holds is known to change.
UpdateCryostatDims ==
    /\ pc = "dims"
    /\ pc' = "world"
    /\ UNCHANGED <<assemblies, config, public_geometry, ged_name, lmeta, acq,
                   source_record, ged_diode_meta, warned, reg, bound, calls,
                   error, failedAt, returned>>
    /\ UNCHANGED <<world_solid, world_material>>
    /\ UNCHANGED <<mergeVars, amendVars, buildVars, laterVars>>

\* Lines 99-105: world_material = MaterialPredefined("G4_AIR"),
\* world = Box("world", 10, 10, 10, reg, "m"), then the logical volume.
CreateWorld ==
    /\ pc = "world"
    /\ world_material' = WorldMaterial
    /\ world_solid' = WorldBox
    /\ reg' = SetWorld(AddLogicalVolume(NewRegistry, "world_lv"), "world_lv")
    /\ bound' = bound \cup {"world_lv"}
    /\ pc' = BuildOrder[1]
    /\ UNCHANGED <<assemblies, config, public_geometry, ged_name, lmeta, acq,
                   source_record, ged_diode_meta, warned, calls, error,
                   failedAt, returned>>
    /\ UNCHANGED <<mergeVars, amendVars, buildVars, laterVars>>

\* Lines 107-197: the block of the assembly pc names.
AssemblyBlock ==
    /\ pc \in DEFAULT_ASSEMBLIES
    /\ LET a == pc
           out == BlockOutcome(a, assemblies, bound, source_record[1])
       IN /\ calls' = IF out = "skip" THEN calls ELSE Append(calls, a)
          /\ bound' = IF BuilderReturned(out) THEN bound \cup {LvVar(a)} ELSE bound
          /\ reg' = IF out = "placed"
                    THEN AddPhysicalVolume(reg, PvName(a), LvVar(a), MotherVar(a))
                    ELSE reg
          /\ error' = IF Raises(out) THEN out ELSE "none"
          /\ failedAt' = IF Raises(out) THEN a ELSE "none"
          /\ pc' = AfterBlock(a, out)
    /\ UNCHANGED <<assemblies, config, public_geometry, ged_name, lmeta, acq,
                   source_record, ged_diode_meta, warned, returned>>
    /\ UNCHANGED <<world_solid, world_material>>
    /\ UNCHANGED <<mergeVars, amendVars, buildVars, laterVars>>

\* Lines 199-203: the viewer, then `return reg`.
ViewAndReturn ==
    /\ pc = "view"
    /\ returned' = TRUE
    /\ pc' = "done"
    /\ UNCHANGED <<assemblies, config, public_geometry, ged_name, lmeta, acq,
                   source_record, ged_diode_meta, warned, reg, bound, calls,
                   error, failedAt>>
    /\ UNCHANGED <<world_solid, world_material>>
    /\ UNCHANGED <<mergeVars, amendVars, buildVars, laterVars>>

\* The call is over: its locals, and the source object it created, are gone.
Finish ==
    /\ pc \in {"done", "failed"}
    /\ pc' = "idle"
    /\ assemblies' = {}
    /\ config' = Config(TRUE, {})
    /\ public_geometry' = FALSE
    /\ ged_name' = "B00000B"
    /\ lmeta' = "None"
    /\ acq' = "none"
    /\ source_record' = << >>
    /\ ged_diode_meta' = "unbound"
    /\ warned' = FALSE
    /\ reg' = NoRegistry
    /\ bound' = {}
    /\ calls' = << >>
    /\ error' = "none"
    /\ failedAt' = "none"
    /\ returned' = FALSE
    /\ world_solid' = "unbound"
    /\ world_material' = "unbound"
    /\ UNCHANGED <<mergeVars, amendVars, buildVars, laterVars>>

Finished == pc \in {"done", "failed"}

(***************************************************************************)
(* utils.merge_configs, lines 15-36.                                       *)
(***************************************************************************)
\* Most merges applied to one record.
MaxMerges == 3

\* production.enrichment.val of the record handed in: None, a value, or no
\* "val" key at all.
EnrichmentVals == {"None", "0.9", "0.92", "Absent"}

\* `0.9  # reasonable value`
DefaultEnrichment == "0.9"

\* The keys the extra metadata is stored under; "hades" is the default of
\* the parameter extra_name.
ExtraNames == {"hades", "extra"}

\* The mappings passed as extra_meta.
ExtraMetas == {"dims_a", "dims_b", "dims_c"}

MergeRecord(val) == [val |-> val, extras |-> [k \in ExtraNames |-> << >>]]

\* diode_meta["production"]["enrichment"]["val"] raises when the key is absent.
UtilsMergeOutcome(dm) == IF dm.val = "Absent" THEN "KeyError" ELSE "ok"

UtilsMergeNoDefault(dm, extra_meta, extra_name) ==
    [dm EXCEPT !.extras[extra_name] = <<extra_meta>>]

\* The dictionary after merge_configs(diode_meta, extra_meta,
\* extra_name=extra_name): it is modified in place and returned.
UtilsMergeConfigs(dm, extra_meta, extra_name) ==
    [dm EXCEPT !.val = IF @ = "None" THEN DefaultEnrichment ELSE @,
               !.extras[extra_name] = <<extra_meta>>]

MergeIdle ==
    /\ diode_meta = MergeRecord("None")
    /\ first_val = "None"
    /\ merges = 0
    /\ last_merge = [extra_meta |-> "dims_a", extra_name |-> "hades", outcome |-> "none"]

\* utils.merge_configs(diode_meta, extra_meta, extra_name=extra_name) on the
\* record merged so far.
Merge(extra_meta, extra_name) ==
    /\ merges < MaxMerges
    /\ merges' = merges + 1
    /\ diode_meta' = IF UtilsMergeOutcome(diode_meta) = "ok"
                     THEN UtilsMergeConfigs(diode_meta, extra_meta, extra_name)
                     ELSE diode_meta
    /\ last_merge' = [extra_meta |-> extra_meta, extra_name |-> extra_name,
                      outcome |-> UtilsMergeOutcome(diode_meta)]
    /\ UNCHANGED first_val
    /\ UNCHANGED <<constructVars, amendVars, buildVars, laterVars>>

(***************************************************************************)
(* utils.amend_gdml, lines 39-58.  A text is a sequence of characters, so  *)
(* that str.replace meets overlapping and nested placeholder names.        *)
(* Lengths are in hundredths of a millimetre.                              *)
(***************************************************************************)
\* Longest template text and longest replacement map explored.
MaxTemplateLen == 3
MaxReplacements == 2

\* The characters of a template: "c" stands for a name such as
\* cavity_width_1, "i" for the prefix inner_ that makes inner_cavity_width_1
\* of it, "h" for an unrelated name, " " for the text between names.
TemplateChars == {"i", "c", "h", " "}

\* The placeholder names the templates are written with.
PlaceholderNames == {<<"c">>, <<"i", "c">>, <<"h">>}

\* Values of a replacement map: 1.50 mm and 2.04 mm.
ReplacementVals == {150, 204}

Texts == UNION {[1..n -> TemplateChars] : n \in 0..MaxTemplateLen}

\* A dict of placeholder name -> number: distinct keys, in insertion order.
ReplacementMaps ==
    {m \in UNION {[1..n -> PlaceholderNames \X ReplacementVals] :
                     n \in 0..MaxReplacements} :
        \A i, j \in DOMAIN m : i # j => m[i][1] # m[j][1]}

DigitChars == <<"0", "1", "2", "3", "4", "5", "6", "7", "8", "9">>

RECURSIVE Decimal(_)
Decimal(n) ==
    IF n < 10 THEN <<DigitChars[n + 1]>>
    ELSE Decimal(n \div 10) \o <<DigitChars[(n % 10) + 1]>>

\* The number of tenths ".1f" prints for a non-negative value: the nearest
\* one.  No value here lies halfway between two tenths.
Tenths(val) == (val + 5) \div 10

\* f"{val:.{1}f}"
FormatOneDecimal(val) ==
    Decimal(Tenths(val) \div 10) \o <<".">> \o <<DigitChars[(Tenths(val) % 10) + 1]>>

\* text.replace(key, new): left to right, occurrences that do not overlap.
RECURSIVE StrReplace(_, _, _)
StrReplace(text, key, new) ==
    IF Len(text) < Len(key) THEN text
    ELSE IF SubSeq(text, 1, Len(key)) = key
         THEN new \o StrReplace(SubSeq(text, Len(key) + 1, Len(text)), key, new)
         ELSE <<Head(text)>> \o StrReplace(Tail(text), key, new)

ReleaseOnReturnOnly(err) == err = "none"

\* `with tempfile.NamedTemporaryFile(...) as f:` closes f, which deletes it,
\* however the block is left.
ReleaseOnExit(err) == TRUE

AmendIdle ==
    /\ a_pc = "idle"
    /\ template = << >>
    /\ replacements = << >>
    /\ write_file = FALSE
    /\ idx = 0
    /\ gdml_text = << >>
    /\ temp_open = FALSE
    /\ temp_acquired = 0
    /\ temp_released = 0
    /\ parsed = << >>
    /\ a_error = "none"

\* amend_gdml(dummy_gdml_path, replacements, write_file) is called.
AmendCall(t, m, w) ==
    /\ a_pc' = "read"
    /\ template' = t
    /\ replacements' = m
    /\ write_file' = w
    /\ idx' = 0
    /\ gdml_text' = << >>
    /\ temp_open' = FALSE
    /\ temp_acquired' = 0
    /\ temp_released' = 0
    /\ parsed' = << >>
    /\ a_error' = "none"
    /\ UNCHANGED <<constructVars, mergeVars, buildVars, laterVars>>

\* gdml_text = dummy_gdml_path.read_text()
ReadText ==
    /\ a_pc = "read"
    /\ \/ /\ gdml_text' = template
          /\ a_pc' = "loop"
          /\ UNCHANGED a_error
       \/ /\ a_error' = "FileNotFoundError"
          /\ a_pc' = "failed"
          /\ UNCHANGED gdml_text
    /\ UNCHANGED <<template, replacements, write_file, idx, temp_open,
                   temp_acquired, temp_released, parsed>>
    /\ UNCHANGED <<constructVars, mergeVars, buildVars, laterVars>>

\* One turn of `for key, val in replacements.items()`.
ReplaceStep ==
    /\ a_pc = "loop"
    /\ idx < Len(replacements)
    /\ gdml_text' = StrReplace(gdml_text, replacements[idx + 1][1],
                               FormatOneDecimal(replacements[idx + 1][2]))
    /\ idx' = idx + 1
    /\ UNCHANGED <<a_pc, template, replacements, write_file, temp_open,
                   temp_acquired, temp_released, parsed, a_error>>
    /\ UNCHANGED <<constructVars, mergeVars, buildVars, laterVars>>

\* with tempfile.NamedTemporaryFile("w+", suffix=".gdml") as f:
OpenTemp ==
    /\ a_pc = "loop"
    /\ idx = Len(replacements)
    /\ \/ /\ temp_open' = TRUE
          /\ temp_acquired' = temp_acquired + 1
          /\ a_pc' = "write"
          /\ UNCHANGED a_error
       \/ /\ a_error' = "OSError"
          /\ a_pc' = "failed"
          /\ UNCHANGED <<temp_open, temp_acquired>>
    /\ UNCHANGED <<template, replacements, write_file, idx, gdml_text,
                   temp_released, parsed>>
    /\ UNCHANGED <<constructVars, mergeVars, buildVars, laterVars>>

\* f.write(gdml_text); f.flush()
WriteFlush ==
    /\ a_pc = "write"
    /\ \/ /\ a_pc' = "parse"
          /\ UNCHANGED a_error
       \/ /\ a_error' = "OSError"
          /\ a_pc' = "exit"
    /\ UNCHANGED <<template, replacements, write_file, idx, gdml_text,
                   temp_open, temp_acquired, temp_released, parsed>>
    /\ UNCHANGED <<constructVars, mergeVars, buildVars, laterVars>>

\* reader = gdml.Reader(f.name): the parser is given the text as it stands.
Parse ==
    /\ a_pc = "parse"
    /\ parsed' = Append(parsed, gdml_text)
    /\ \/ /\ a_pc' = IF write_file THEN "write_gdml" ELSE "return"
          /\ UNCHANGED a_error
       \/ /\ a_error' = "ParseError"
          /\ a_pc' = "exit"
    /\ UNCHANGED <<template, replacements, write_file, idx, gdml_text,
                   temp_open, temp_acquired, temp_released>>
    /\ UNCHANGED <<constructVars, mergeVars, buildVars, laterVars>>

\* if write_file: write_gdml(reader.getRegistry(), gdml_file_name)
WriteGdml ==
    /\ a_pc = "write_gdml"
    /\ \/ /\ a_pc' = "return"
          /\ UNCHANGED a_error
       \/ /\ a_error' = "OSError"
          /\ a_pc' = "exit"
    /\ UNCHANGED <<template, replacements, write_file, idx, gdml_text,
                   temp_open, temp_acquired, temp_released, parsed>>
    /\ UNCHANGED <<constructVars, mergeVars, buildVars, laterVars>>

\* return reader.getRegistry(), from inside the with block.
Return ==
    /\ a_pc = "return"
    /\ a_pc' = "exit"
    /\ UNCHANGED <<template, replacements, write_file, idx, gdml_text,
                   temp_open, temp_acquired, temp_released, parsed, a_error>>
    /\ UNCHANGED <<constructVars, mergeVars, buildVars, laterVars>>

\* Leaving the with block, by return or by exception.
ExitWith ==
    /\ a_pc = "exit"
    /\ IF ReleaseOnExit(a_error)
       THEN /\ temp_open' = FALSE
            /\ temp_released' = temp_released + 1
       ELSE UNCHANGED <<temp_open, temp_released>>
    /\ a_pc' = IF a_error = "none" THEN "done" ELSE "failed"
    /\ UNCHANGED <<template, replacements, write_file, idx, gdml_text,
                   temp_acquired, parsed, a_error>>
    /\ UNCHANGED <<constructVars, mergeVars, buildVars, laterVars>>

\* The call is over and has left nothing behind; the next one may start.
AmendFinish ==
    /\ a_pc \in {"done", "failed"}
    /\ ~temp_open
    /\ a_pc' = "idle"
    /\ template' = << >>
    /\ replacements' = << >>
    /\ write_file' = FALSE
    /\ idx' = 0
    /\ gdml_text' = << >>
    /\ temp_acquired' = 0
    /\ temp_released' = 0
    /\ parsed' = << >>
    /\ a_error' = "none"
    /\ UNCHANGED temp_open
    /\ UNCHANGED <<constructVars, mergeVars, buildVars, laterVars>>

(***************************************************************************)
(* create_volumes.py: the builders.  A dimension record is a nested        *)
(* record whose leaves are lengths in hundredths of a millimetre; a field  *)
(* the record lacks is absent from its DOMAIN.                             *)
(***************************************************************************)
\* What each leaf of a record may exceed its round value by: nothing, 0.04 mm
\* (finer than one decimal place) and 0.20 mm.
Offsets == {0, 4, 20}

CryostatDims(d, e) ==
    [width |-> 20000 + d, thickness |-> 200 + e, height |-> 50000 + d,
     position_cavity_from_top |-> 1000 + e,
     position_cavity_from_bottom |-> 2000 + d]

WrapDims(d, e) ==
    [outer |-> [height_in_mm |-> 10000 + d, radius_in_mm |-> 5000 + e],
     inner |-> [height_in_mm |-> 9900 + e, radius_in_mm |-> 4900 + d]]

HolderDims(d, e) ==
    [cylinder |-> [outer |-> [height_in_mm |-> 10000 + d, radius_in_mm |-> 5000 + e],
                   inner |-> [height_in_mm |-> 9900 + e, radius_in_mm |-> 4900 + d]],
     bottom_cyl |-> [outer |-> [height_in_mm |-> 1000 + d, radius_in_mm |-> 4000 + e],
                     inner |-> [height_in_mm |-> 900 + e, radius_in_mm |-> 3900 + d]],
     rings |-> [height_in_mm |-> 1000 + e, radius_in_mm |-> 15000 + d,
                position_top_ring_in_mm |-> 2000 + d,
                position_bottom_ring_in_mm |-> 7000 + e],
     edge |-> [height_in_mm |-> 500 + d]]

PlateDims(d, e) ==
    [width |-> 70000 + d, height |-> 1500 + d, depth |-> 60000 + e,
     cavity |-> [width |-> 12000 + e, height |-> 2000 + e, depth |-> 5000 + d]]

CastleDims(d, e) ==
    [cavity |-> [width |-> 10000 + d, height |-> 10000 + d, depth |-> 10000 + d],
     base |-> [width |-> 40000 + d, height |-> 30000 + d, depth |-> 40000 + d],
     inner_cavity |-> [width |-> 20000 + e, height |-> 20000 + e, depth |-> 20000 + e],
     top |-> [width |-> 40000 + e, height |-> 5000 + e, depth |-> 40000 + e],
     front |-> [width |-> 16000 + d, height |-> 10000 + d, depth |-> 10000 + e],
     copper_plate |-> [width |-> 16000 + e, height |-> 100 + e, depth |-> 10000 + d]]

SourceDims(d, e) ==
    [plates |-> [width |-> 5000 + e, height |-> 1000 + d, cavity_width |-> 500 + d]]

Builders ==
    {"vacuum_cavity", "wrap", "holder", "bottom_plate", "lead_castle",
     "th_plate", "cryostat"}

\* create_vacuum_cavity has no from_gdml parameter: it only constructs directly.
HasTemplatePath(b) == b # "vacuum_cavity"

DetTypes == {"bege", "icpc", "coax"}
TableNums == {0, 1, 2, 3}

Dims(b, d, e) ==
    CASE b = "vacuum_cavity" -> CryostatDims(d, e)
      [] b = "cryostat" -> CryostatDims(d, e)
      [] b = "wrap" -> WrapDims(d, e)
      [] b = "holder" -> HolderDims(d, e)
      [] b = "bottom_plate" -> PlateDims(d, e)
      [] b = "lead_castle" -> CastleDims(d, e)
      [] b = "th_plate" -> SourceDims(d, e)

\* The fields of the records above, by path.
Grid(parents, leaves) == {<<p, l>> : p \in parents, l \in leaves}

FieldPaths(b) ==
    CASE b \in {"vacuum_cavity", "cryostat"} ->
             {<<f>> : f \in {"width", "thickness", "height",
                             "position_cavity_from_top",
                             "position_cavity_from_bottom"}}
      [] b = "wrap" ->
             {<<"outer">>, <<"inner">>}
             \cup Grid({"outer", "inner"}, {"height_in_mm", "radius_in_mm"})
      [] b = "holder" ->
             {<<"cylinder">>, <<"bottom_cyl">>, <<"rings">>, <<"edge">>,
              <<"edge", "height_in_mm">>, <<"cylinder", "outer">>,
              <<"cylinder", "inner", "height_in_mm">>,
              <<"bottom_cyl", "outer", "radius_in_mm">>}
             \cup Grid({"rings"}, {"position_top_ring_in_mm",
                                   "position_bottom_ring_in_mm",
                                   "radius_in_mm", "height_in_mm"})
      [] b = "bottom_plate" ->
             {<<"width">>, <<"depth">>, <<"height">>, <<"cavity">>}
             \cup Grid({"cavity"}, {"width", "depth", "height"})
      [] b = "lead_castle" ->
             {<<"base">>, <<"inner_cavity">>, <<"cavity">>, <<"top">>,
              <<"front">>, <<"copper_plate">>}
             \cup Grid({"base", "inner_cavity", "cavity", "top", "front",
                        "copper_plate"}, {"width", "depth", "height"})
      [] b = "th_plate" ->
             {<<"plates">>} \cup Grid({"plates"}, {"height", "width", "cavity_width"})

\* The record without the field at `path`.
RECURSIVE Without(_, _)
Without(rec, path) ==
    IF Len(path) = 1
    THEN [f \in DOMAIN rec \ {path[1]} |-> rec[f]]
    ELSE [f \in DOMAIN rec |->
             IF f = path[1] THEN Without(rec[f], Tail(path)) ELSE rec[f]]

\* The records a builder is called with: complete, or lacking one field.
DimRecords(b) ==
    {Dims(b, d, e) : d \in Offsets, e \in Offsets}
    \cup {Without(Dims(b, d, d), p) : d \in Offsets, p \in FieldPaths(b)}

RECURSIVE Has(_, _)
Has(rec, path) ==
    \/ path = << >>
    \/ /\ Head(path) \in DOMAIN rec
       /\ Has(rec[Head(path)], Tail(path))

RECURSIVE At(_, _)
At(rec, path) == IF path = << >> THEN rec ELSE At(rec[Head(path)], Tail(path))

LookupOrZero(rec, path) == IF Has(rec, path) THEN <<At(rec, path)>> ELSE <<0>>

\* rec.a.b or rec["a"]["b"]: one value, or none when the access raises.
Lookup(rec, path) == IF Has(rec, path) THEN <<At(rec, path)>> ELSE << >>

V(rec, path) == Lookup(rec, path)[1]

\* The first of the accesses `reads` (in evaluation order) that raises.
Raising(rec, reads) == {i \in DOMAIN reads : Lookup(rec, reads[i]) = << >>}
FirstRaising(rec, reads) ==
    reads[CHOOSE i \in Raising(rec, reads) : \A j \in Raising(rec, reads) : i <= j]

\* Subscripting a record that lacks the key raises KeyError, attribute
\* access AttributeError.
AccessError(rec, path, subscripted) ==
    IF Head(path) \notin DOMAIN rec /\ subscripted
    THEN "KeyError" ELSE "AttributeError"

\* ---- the template path
DigitValue(c) == CHOOSE d \in 0..9 : DigitChars[d + 1] = c

RECURSIVE DigitsValue(_)
DigitsValue(s) ==
    IF s = << >> THEN 0
    ELSE DigitsValue(SubSeq(s, 1, Len(s) - 1)) * 10 + DigitValue(s[Len(s)])

\* The length the parser reads from a number printed with one decimal.
ParseDecimal(text) ==
    LET dot == CHOOSE i \in DOMAIN text : text[i] = "."
    IN  (DigitsValue(SubSeq(text, 1, dot - 1)) * 10
         + DigitsValue(SubSeq(text, dot + 1, Len(text)))) * 10

\* The parsed value of every placeholder of a replacement map.
Substituted(repl) ==
    [k \in {repl[i][1] : i \in DOMAIN repl} |->
        ParseDecimal(FormatOneDecimal(
            repl[CHOOSE i \in DOMAIN repl : repl[i][1] = k][2]))]

\* The solid a template describes, in terms of its placeholders.
TemplateSolid(file, t) ==
    CASE file = "wrap_dummy.gdml" ->
             GenericPolycone("wrap",
                 <<0, t["wrap_outer_radius_in_mm"], t["wrap_outer_radius_in_mm"],
                   t["wrap_inner_radius_in_mm"], t["wrap_inner_radius_in_mm"]>>,
                 <<0, 0, t["wrap_top_thickness_in_mm"],
                   t["wrap_top_thickness_in_mm"], t["wrap_outer_height_in_mm"]>>)
      [] file = "holder_bege_dummy.gdml" ->
             GenericPolycone("holder",
                 <<t["outer_radius_in_mm"], t["max_radius_in_mm"],
                   t["outer_radius_in_mm"], 0, t["inner_radius_in_mm"]>>,
                 <<0, t["position_top_ring_in_mm"], t["end_top_ring_in_mm"],
                   t["outer_height_in_mm"], t["inner_height_in_mm"]>>)
      [] file = "bottom_plate_dummy.gdml" ->
             Subtraction("final_bottom_plate",
                 Box("bottom_plate", t["bottom_plate_width"],
                     t["bottom_plate_depth"], t["bottom_plate_height"]),
                 Box("cavity_bottom_plate", t["bottom_cavity_plate_width"],
                     t["bottom_cavity_plate_depth"], t["bottom_cavity_plate_height"]),
                 <<0, t["bottom_plate_depth"] \div 2, 0>>)
      [] file = "lead_castle_table1_dummy.gdml" ->
             Union("final_lead_castle_1",
                 Union("top_base_1",
                     Subtraction("base_cavity_1",
                         Box("base_lead_castle_1", t["base_width_1"],
                             t["base_depth_1"], t["base_height_1"]),
                         Union("total_cavity_1",
                             Box("inner_cavity_base_1", t["inner_cavity_width_1"],
                                 t["inner_cavity_depth_1"], t["inner_cavity_height_1"]),
                             Box("cavity_base_1", t["cavity_width_1"],
                                 t["cavity_depth_1"], t["cavity_height_1"]),
                             <<0,
                               t["inner_cavity_depth_1"] \div 2
                               + (t["base_depth_1"] - t["inner_cavity_depth_1"]) \div 4,
                               (t["inner_cavity_height_1"] - t["cavity_height_1"]) \div 2>>),
                         <<0, 0, 0>>),
                     Box("top_lead_castle_1", t["top_width_1"], t["top_depth_1"],
                         t["top_height_1"]),
                     <<0, 0, -((t["base_height_1"] + t["top_height_1"]) \div 2) - 1>>),
                 Box("front_1", t["front_width_1"], t["front_depth_1"],
                     t["front_height_1"]),
                 <<0, (t["base_depth_1"] + t["front_depth_1"]) \div 2 - 1,
                   (t["base_height_1"] - t["front_height_1"]) \div 2>>)
      [] file = "source_th_plates_dummy.gdml" ->
             Tubs("source_plates", t["source_plates_cavity_width"] \div 2,
                  t["source_plates_width"] \div 2, t["source_plates_height"])
      [] file = "cryostat_dummy.gdml" ->
             GenericPolycone("cryostat",
                 <<0, t["cryostat_width"] \div 2,
                   (t["cryostat_width"] - 2 * t["cryostat_thickness"]) \div 2, 0>>,
                 <<0, t["position_cryostat_cavity_fromTop"],
                   t["cryostat_height"] - t["position_cryostat_cavity_fromBottom"],
                   t["cryostat_height"]>>)
      [] OTHER -> [name |-> file, kind |-> "Template", values |-> t]

\* The material the volume of a template is made of.
TemplateMaterial(file) ==
    CASE file = "wrap_dummy.gdml" -> "HD1000"
      [] file \in {"holder_bege_dummy.gdml", "holder_icpc_dummy.gdml",
                   "cryostat_dummy.gdml"} -> "EN_AW-2011T8"
      [] file = "bottom_plate_dummy.gdml" -> "Al"
      [] OTHER -> "G4_Pb"

\* The volume read_gdml_with_replacements takes from a template when it is
\* not told which.
TemplateVolumeName(file) ==
    CASE file = "wrap_dummy.gdml" -> "Wrap"
      [] file \in {"holder_bege_dummy.gdml", "holder_icpc_dummy.gdml"} -> "Holder"
      [] file = "bottom_plate_dummy.gdml" -> "Bottom_plate"
      [] file = "source_th_plates_dummy.gdml" -> "Source_Plates"
      [] file = "cryostat_dummy.gdml" -> "Cryostat"
      [] OTHER -> "Lead_castle"

\* read_gdml_with_replacements(dummy_gdml_path, replacements, vol_name=...)
ReadGdmlWithReplacements(file, repl, vol_name) ==
    LogicalVolume(TemplateSolid(file, Substituted(repl)), TemplateMaterial(file),
                  vol_name)

\* ---- the builders
\* create_vacuum_cavity(cryostat_metadata, registry)
CreateVacuumCavity(cryostat_metadata) ==
    LET m == cryostat_metadata
        reads == <<(<<"width">>), (<<"thickness">>), (<<"height">>),
                   (<<"position_cavity_from_top">>),
                   (<<"position_cavity_from_bottom">>)>>
        vacuum_cavity_radius == (V(m, <<"width">>) - 2 * V(m, <<"thickness">>)) \div 2
        vacuum_cavity_z == V(m, <<"height">>) - V(m, <<"position_cavity_from_top">>)
                           - V(m, <<"position_cavity_from_bottom">>)
    IN  IF Raising(m, reads) # {}
        THEN Raise(AccessError(m, FirstRaising(m, reads), TRUE))
        ELSE LogicalVolume(
                 GenericPolycone("vacuum_cavity",
                     <<0, vacuum_cavity_radius, vacuum_cavity_radius, 0>>,
                     <<0, 0, vacuum_cavity_z, vacuum_cavity_z>>),
                 "G4_Galactic", "cavity_lv")

\* create_wrap(wrap_metadata, from_gdml)
CreateWrap(wrap_metadata, from_gdml) ==
    LET m == wrap_metadata
        reads == IF from_gdml
                 THEN <<(<<"outer", "height_in_mm">>), (<<"outer", "radius_in_mm">>),
                        (<<"inner", "radius_in_mm">>), (<<"outer", "height_in_mm">>),
                        (<<"inner", "height_in_mm">>)>>
                 ELSE <<(<<"outer", "height_in_mm">>), (<<"outer", "radius_in_mm">>),
                        (<<"inner", "radius_in_mm">>), (<<"inner", "height_in_mm">>)>>
        wrap_outer_height == V(m, <<"outer", "height_in_mm">>)
        wrap_outer_radius == V(m, <<"outer", "radius_in_mm">>)
        wrap_inner_radius == V(m, <<"inner", "radius_in_mm">>)
        wrap_top_thickness == wrap_outer_height - V(m, <<"inner", "height_in_mm">>)
    IN  IF Raising(m, reads) # {}
        THEN Raise(AccessError(m, FirstRaising(m, reads), FALSE))
        ELSE IF from_gdml
        THEN ReadGdmlWithReplacements("wrap_dummy.gdml",
                 <<(<<"wrap_outer_height_in_mm", wrap_outer_height>>),
                   (<<"wrap_outer_radius_in_mm", wrap_outer_radius>>),
                   (<<"wrap_inner_radius_in_mm", wrap_inner_radius>>),
                   (<<"wrap_top_thickness_in_mm", wrap_top_thickness>>)>>,
                 TemplateVolumeName("wrap_dummy.gdml"))
        ELSE LogicalVolume(
                 GenericPolycone("wrap",
                     <<0, wrap_outer_radius, wrap_outer_radius, wrap_inner_radius,
                       wrap_inner_radius>>,
                     <<0, 0, wrap_top_thickness, wrap_top_thickness,
                       wrap_outer_height>>),
                 "HD1000", "Wrap")

DirectHolderTypesWithIcpc == {"bege", "icpc"}

\* The detector types whose holder the direct path constructs.
DirectHolderTypes == {"bege"}

\* create_holder(holder_meta, det_type, from_gdml)
CreateHolder(holder_meta, det_type, from_gdml) ==
    LET m == holder_meta
        subscripts == IF from_gdml
                      THEN <<(<<"rings">>), (<<"cylinder">>), (<<"bottom_cyl">>)>>
                      ELSE <<(<<"rings">>), (<<"cylinder">>)>>
        bege == <<(<<"rings", "radius_in_mm">>),
                  (<<"cylinder", "outer", "height_in_mm">>),
                  (<<"cylinder", "inner", "height_in_mm">>),
                  (<<"cylinder", "outer", "radius_in_mm">>),
                  (<<"cylinder", "inner", "radius_in_mm">>),
                  (<<"rings", "position_top_ring_in_mm">>),
                  (<<"rings", "height_in_mm">>)>>
        icpc == <<(<<"rings", "radius_in_mm">>),
                  (<<"cylinder", "outer", "height_in_mm">>),
                  (<<"cylinder", "inner", "height_in_mm">>),
                  (<<"cylinder", "outer", "radius_in_mm">>),
                  (<<"cylinder", "inner", "radius_in_mm">>),
                  (<<"bottom_cyl", "outer", "radius_in_mm">>),
                  (<<"bottom_cyl", "inner", "radius_in_mm">>),
                  (<<"edge", "height_in_mm">>),
                  (<<"rings", "position_top_ring_in_mm">>),
                  (<<"rings", "position_bottom_ring_in_mm">>),
                  (<<"rings", "height_in_mm">>),
                  (<<"bottom_cyl", "outer", "height_in_mm">>),
                  (<<"bottom_cyl", "inner", "height_in_mm">>)>>
        reads == IF from_gdml
                 THEN IF det_type = "icpc" THEN subscripts \o icpc
                      ELSE IF det_type = "bege" THEN subscripts \o bege
                      ELSE << >>
                 ELSE IF det_type \in DirectHolderTypes THEN subscripts \o bege
                      ELSE subscripts
        max_radius == V(m, <<"rings", "radius_in_mm">>)
        outer_height == V(m, <<"cylinder", "outer", "height_in_mm">>)
        inner_height == V(m, <<"cylinder", "inner", "height_in_mm">>)
        outer_radius == V(m, <<"cylinder", "outer", "radius_in_mm">>)
        inner_radius == V(m, <<"cylinder", "inner", "radius_in_mm">>)
        pos_top_ring_z == V(m, <<"rings", "position_top_ring_in_mm">>)
        pos_bottom_ring_z == V(m, <<"rings", "position_bottom_ring_in_mm">>)
        ring_height == V(m, <<"rings", "height_in_mm">>)
        end_top_ring_z == ring_height + pos_top_ring_z
    IN  IF Raising(m, reads) # {}
        THEN Raise(AccessError(m, FirstRaising(m, reads),
                               Head(FirstRaising(m, reads)) # "edge"))
        ELSE IF from_gdml /\ det_type = "icpc"
        THEN ReadGdmlWithReplacements("holder_icpc_dummy.gdml",
                 <<(<<"max_radius_in_mm", max_radius>>),
                   (<<"outer_height_in_mm", outer_height>>),
                   (<<"inner_height_in_mm", inner_height>>),
                   (<<"outer_radius_in_mm", outer_radius>>),
                   (<<"inner_radius_in_mm", inner_radius>>),
                   (<<"outer_bottom_cyl_radius_in_mm",
                      V(m, <<"bottom_cyl", "outer", "radius_in_mm">>)>>),
                   (<<"inner_bottom_cyl_radius_in_mm",
                      V(m, <<"bottom_cyl", "inner", "radius_in_mm">>)>>),
                   (<<"edge_height_in_mm", V(m, <<"edge", "height_in_mm">>)>>),
                   (<<"pos_top_ring_in_mm", pos_top_ring_z>>),
                   (<<"pos_bottom_ring_in_mm", pos_bottom_ring_z>>),
                   (<<"end_top_ring_in_mm", pos_top_ring_z + ring_height>>),
                   (<<"end_bottom_ring_in_mm", pos_bottom_ring_z + ring_height>>),
                   (<<"end_bottom_cyl_outer_in_mm",
                      outer_height + V(m, <<"bottom_cyl", "outer", "height_in_mm">>)>>),
                   (<<"end_bottom_cyl_inner_in_mm",
                      inner_height + V(m, <<"bottom_cyl", "inner", "height_in_mm">>)>>)>>,
                 TemplateVolumeName("holder_icpc_dummy.gdml"))
        ELSE IF from_gdml /\ det_type = "bege"
        THEN ReadGdmlWithReplacements("holder_bege_dummy.gdml",
                 <<(<<"max_radius_in_mm", max_radius>>),
                   (<<"outer_height_in_mm", outer_height>>),
                   (<<"inner_height_in_mm", inner_height>>),
                   (<<"outer_radius_in_mm", outer_radius>>),
                   (<<"inner_radius_in_mm", inner_radius>>),
                   (<<"position_top_ring_in_mm", pos_top_ring_z>>),
                   (<<"end_top_ring_in_mm", end_top_ring_z>>)>>,
                 TemplateVolumeName("holder_bege_dummy.gdml"))
        ELSE IF det_type \in DirectHolderTypes
        THEN LogicalVolume(
                 GenericPolycone("holder",
                     <<outer_radius, outer_radius, max_radius, max_radius,
                       outer_radius, outer_radius, outer_radius, 0, 0,
                       inner_radius, inner_radius, inner_radius, inner_radius>>,
                     <<0, pos_top_ring_z, pos_top_ring_z, end_top_ring_z,
                       end_top_ring_z, inner_height, outer_height, outer_height,
                       inner_height, inner_height, end_top_ring_z,
                       pos_top_ring_z, 0>>),
                 "EN_AW-2011T8", "Holder")
        ELSE Raise("NotImplementedError")

\* create_bottom_plate(plate_metadata, from_gdml)
CreateBottomPlate(plate_metadata, from_gdml) ==
    LET m == plate_metadata
        reads == IF from_gdml
                 THEN <<(<<"width">>), (<<"depth">>), (<<"height">>),
                        (<<"cavity", "width">>), (<<"cavity", "depth">>),
                        (<<"cavity", "height">>)>>
                 ELSE <<(<<"width">>), (<<"depth">>), (<<"height">>),
                        (<<"cavity", "width">>), (<<"cavity", "depth">>),
                        (<<"cavity", "height">>), (<<"depth">>)>>
    IN  IF Raising(m, reads) # {}
        THEN Raise(AccessError(m, FirstRaising(m, reads), FALSE))
        ELSE IF from_gdml
        THEN ReadGdmlWithReplacements("bottom_plate_dummy.gdml",
                 <<(<<"bottom_plate_width", V(m, <<"width">>)>>),
                   (<<"bottom_plate_depth", V(m, <<"depth">>)>>),
                   (<<"bottom_plate_height", V(m, <<"height">>)>>),
                   (<<"bottom_cavity_plate_width", V(m, <<"cavity", "width">>)>>),
                   (<<"bottom_cavity_plate_depth", V(m, <<"cavity", "depth">>)>>),
                   (<<"bottom_cavity_plate_height", V(m, <<"cavity", "height">>)>>)>>,
                 TemplateVolumeName("bottom_plate_dummy.gdml"))
        ELSE LogicalVolume(
                 Subtraction("final_bottom_plate",
                     Box("bottom_plate", V(m, <<"width">>), V(m, <<"depth">>),
                         V(m, <<"height">>)),
                     Box("cavity_bottom_plate", V(m, <<"cavity", "width">>),
                         V(m, <<"cavity", "depth">>), V(m, <<"cavity", "height">>)),
                     <<0, V(m, <<"depth">>) \div 2, 0>>),
                 "Al", "Bottom_plate")

\* The boxes a lead castle is described by, in the order both paths read them.
CastleParts(table_num) ==
    IF table_num = 1
    THEN <<"base", "inner_cavity", "cavity", "top", "front">>
    ELSE <<"base", "inner_cavity", "top", "copper_plate">>

\* The placeholders of the lead castle templates, in dictionary order.
CastleKeys(table_num) ==
    IF table_num = 1
    THEN <<"base_width_1", "base_depth_1", "base_height_1",
           "inner_cavity_width_1", "inner_cavity_depth_1", "inner_cavity_height_1",
           "cavity_width_1", "cavity_depth_1", "cavity_height_1",
           "top_width_1", "top_depth_1", "top_height_1",
           "front_width_1", "front_depth_1", "front_height_1">>
    ELSE <<"base_width_2", "base_depth_2", "base_height_2",
           "inner_cavity_width_2", "inner_cavity_depth_2", "inner_cavity_height_2",
           "top_width_2", "top_depth_2", "top_height_2",
           "copper_plate_width", "copper_plate_depth", "copper_plate_height">>

\* The fields those placeholders are given, in the same order.
CastleReads(table_num) ==
    [i \in 1..(3 * Len(CastleParts(table_num))) |->
        <<CastleParts(table_num)[((i - 1) \div 3) + 1],
          <<"width", "depth", "height">>[((i - 1) % 3) + 1]>>]

\* The offset of the secondary cavity inside the inner cavity.
PosCavityQuarter(m) ==
    <<0,
      V(m, <<"inner_cavity", "depth">>) \div 4
      + (V(m, <<"base", "depth">>) - V(m, <<"inner_cavity", "depth">>)) \div 4,
      (V(m, <<"inner_cavity", "height">>) - V(m, <<"cavity", "height">>)) \div 2>>

PosCavity(m) ==
    <<0,
      V(m, <<"inner_cavity", "depth">>) \div 2
      + (V(m, <<"base", "depth">>) - V(m, <<"inner_cavity", "depth">>)) \div 4,
      (V(m, <<"inner_cavity", "height">>) - V(m, <<"cavity", "height">>)) \div 2>>

ValidTableAny(table_num) == TRUE

\* if table_num not in [1, 2]: raise ValueError
ValidTable(table_num) == table_num \in {1, 2}

LeadCastleSolidsFrontFirst(m) ==
    LET BoxOf(name, part) ==
            Box(name, V(m, <<part, "width">>), V(m, <<part, "depth">>),
                V(m, <<part, "height">>))
        pos_top_z == -((V(m, <<"base", "height">>) + V(m, <<"top", "height">>)) \div 2) - 1
        pos_front_y == (V(m, <<"base", "depth">>) + V(m, <<"front", "depth">>)) \div 2 - 1
        pos_front_z == (V(m, <<"base", "height">>) - V(m, <<"front", "height">>)) \div 2
        base_solid == BoxOf("base_lead_castle_1", "base")
        inner_cavity_solid == BoxOf("inner_cavity_base_1", "inner_cavity")
        cavity_solid == BoxOf("cavity_base_1", "cavity")
        top_solid == BoxOf("top_lead_castle_1", "top")
        front_solid == BoxOf("front_1", "front")
        total_cavity == Union("total_cavity_1", inner_cavity_solid, cavity_solid,
                              PosCavity(m))
        base_cavity == Subtraction("base_cavity_1", base_solid, total_cavity, <<0, 0, 0>>)
        top_base == Union("top_base_1", base_cavity, front_solid,
                          <<0, pos_front_y, pos_front_z>>)
        final_solid == Union("final_lead_castle_1", top_base, top_solid,
                             <<0, 0, pos_top_z>>)
    IN  <<base_solid, inner_cavity_solid, cavity_solid, top_solid, front_solid,
          total_cavity, base_cavity, top_base, final_solid>>

\* The solids the direct path of table 1 creates, in the order it creates
\* them: the five boxes, then total_cavity, base_cavity, top_base, final_solid.
LeadCastleSolids(m) ==
    LET BoxOf(name, part) ==
            Box(name, V(m, <<part, "width">>), V(m, <<part, "depth">>),
                V(m, <<part, "height">>))
        pos_top_z == -((V(m, <<"base", "height">>) + V(m, <<"top", "height">>)) \div 2) - 1
        pos_front_y == (V(m, <<"base", "depth">>) + V(m, <<"front", "depth">>)) \div 2 - 1
        pos_front_z == (V(m, <<"base", "height">>) - V(m, <<"front", "height">>)) \div 2
        base_solid == BoxOf("base_lead_castle_1", "base")
        inner_cavity_solid == BoxOf("inner_cavity_base_1", "inner_cavity")
        cavity_solid == BoxOf("cavity_base_1", "cavity")
        top_solid == BoxOf("top_lead_castle_1", "top")
        front_solid == BoxOf("front_1", "front")
        total_cavity == Union("total_cavity_1", inner_cavity_solid, cavity_solid,
                              PosCavity(m))
        base_cavity == Subtraction("base_cavity_1", base_solid, total_cavity, <<0, 0, 0>>)
        top_base == Union("top_base_1", base_cavity, top_solid, <<0, 0, pos_top_z>>)
        final_solid == Union("final_lead_castle_1", top_base, front_solid,
                             <<0, pos_front_y, pos_front_z>>)
    IN  <<base_solid, inner_cavity_solid, cavity_solid, top_solid, front_solid,
          total_cavity, base_cavity, top_base, final_solid>>

\* create_lead_castle(table_num, castle_dimensions, from_gdml, volume_name)
CreateLeadCastle(table_num, castle_dimensions, from_gdml, volume_name) ==
    LET m == castle_dimensions
        reads == IF from_gdml \/ table_num = 1
                 THEN CastleReads(table_num)
                 ELSE << >>
    IN  IF ~ValidTable(table_num)
        THEN Raise("ValueError")
        ELSE IF Raising(m, reads) # {}
        THEN Raise(AccessError(m, FirstRaising(m, reads), FALSE))
        ELSE IF from_gdml
        THEN ReadGdmlWithReplacements(
                 IF table_num = 1 THEN "lead_castle_table1_dummy.gdml"
                 ELSE "lead_castle_table2_dummy.gdml",
                 [i \in DOMAIN reads |->
                     <<CastleKeys(table_num)[i], V(m, reads[i])>>],
                 volume_name)
        ELSE IF table_num = 1
        THEN LogicalVolume(LeadCastleSolids(m)[9], "G4_Pb", "Lead_castle")
        ELSE Raise("NotImplementedError")

\* create_th_plate(source_dims, from_gdml)
CreateThPlate(source_dims, from_gdml) ==
    LET m == source_dims
        reads == <<(<<"plates", "height">>), (<<"plates", "width">>),
                   (<<"plates", "cavity_width">>)>>
        source_plates_z == V(m, <<"plates", "height">>)
        source_plates_radius == V(m, <<"plates", "width">>) \div 2
        source_plates_cavity_radius == V(m, <<"plates", "cavity_width">>) \div 2
    IN  IF Raising(m, reads) # {}
        THEN Raise(AccessError(m, FirstRaising(m, reads), FALSE))
        ELSE IF from_gdml
        THEN ReadGdmlWithReplacements("source_th_plates_dummy.gdml",
                 <<(<<"source_plates_height", V(m, <<"plates", "height">>)>>),
                   (<<"source_plates_width", V(m, <<"plates", "width">>)>>),
                   (<<"source_plates_cavity_width",
                      V(m, <<"plates", "cavity_width">>)>>)>>,
                 TemplateVolumeName("source_th_plates_dummy.gdml"))
        ELSE LogicalVolume(
                 Tubs("source_plates", source_plates_cavity_radius,
                      source_plates_radius, source_plates_z),
                 "G4_Pb", "Source_Plates")

CavityRadiusInsideWall(m) == (V(m, <<"width">>) - V(m, <<"thickness">>)) \div 2

\* cryostat_cavity_radius = (cryostat_meta.width - 2 * cryostat_meta.thickness) / 2.0
CryostatCavityRadius(m) == (V(m, <<"width">>) - 2 * V(m, <<"thickness">>)) \div 2

\* create_cryostat(cryostat_meta, from_gdml)
CreateCryostat(cryostat_meta, from_gdml) ==
    LET m == cryostat_meta
        reads == IF from_gdml
                 THEN <<(<<"height">>), (<<"width">>), (<<"thickness">>),
                        (<<"position_cavity_from_top">>),
                        (<<"position_cavity_from_bottom">>)>>
                 ELSE <<(<<"height">>), (<<"width">>), (<<"width">>),
                        (<<"thickness">>), (<<"position_cavity_from_top">>),
                        (<<"position_cavity_from_bottom">>)>>
        cryostat_height == V(m, <<"height">>)
        cryostat_radius == V(m, <<"width">>) \div 2
        cryostat_cavity_radius == CryostatCavityRadius(m)
        start_cavity_z == V(m, <<"position_cavity_from_top">>)
        end_cavity_z == cryostat_height - V(m, <<"position_cavity_from_bottom">>)
    IN  IF Raising(m, reads) # {}
        THEN Raise(AccessError(m, FirstRaising(m, reads), FALSE))
        ELSE IF from_gdml
        THEN ReadGdmlWithReplacements("cryostat_dummy.gdml",
                 <<(<<"cryostat_height", V(m, <<"height">>)>>),
                   (<<"cryostat_width", V(m, <<"width">>)>>),
                   (<<"cryostat_thickness", V(m, <<"thickness">>)>>),
                   (<<"position_cryostat_cavity_fromTop",
                      V(m, <<"position_cavity_from_top">>)>>),
                   (<<"position_cryostat_cavity_fromBottom",
                      V(m, <<"position_cavity_from_bottom">>)>>)>>,
                 TemplateVolumeName("cryostat_dummy.gdml"))
        ELSE LogicalVolume(
                 GenericPolycone("cryostat",
                     <<0, cryostat_radius, cryostat_radius, cryostat_cavity_radius,
                       cryostat_cavity_radius, 0, 0, cryostat_radius,
                       cryostat_radius, 0>>,
                     <<0, 0, start_cavity_z, start_cavity_z, end_cavity_z,
                       end_cavity_z, end_cavity_z, end_cavity_z, cryostat_height,
                       cryostat_height>>),
                 "EN_AW-2011T8", "Cryostat")

\* The call of builder b with the arguments of `input`.
BuilderResult(input, from_gdml) ==
    CASE input.builder = "vacuum_cavity" -> CreateVacuumCavity(input.dims)
      [] input.builder = "wrap" -> CreateWrap(input.dims, from_gdml)
      [] input.builder = "holder" -> CreateHolder(input.dims, input.det_type, from_gdml)
      [] input.builder = "bottom_plate" -> CreateBottomPlate(input.dims, from_gdml)
      [] input.builder = "lead_castle" ->
             CreateLeadCastle(input.table_num, input.dims, from_gdml, "Lead_castle")
      [] input.builder = "th_plate" -> CreateThPlate(input.dims, from_gdml)
      [] input.builder = "cryostat" -> CreateCryostat(input.dims, from_gdml)

BuildIdle ==
    /\ b_input = [det_type |-> "bege", table_num |-> 1, builder |-> "wrap",
                  dims |-> WrapDims(0, 0)]
    /\ b_out = [gdml |-> NotCalled, python |-> NotCalled]

\* A caller picks a builder and the arguments both paths will be given.
ChooseInput(b, dt, tn, r) ==
    /\ b_input' = [det_type |-> dt, table_num |-> tn, builder |-> b, dims |-> r]
    /\ b_out' = [gdml |-> NotCalled, python |-> NotCalled]
    /\ UNCHANGED <<constructVars, mergeVars, amendVars, laterVars>>

\* The builder is called with from_gdml=True.
CallTemplatePath ==
    /\ HasTemplatePath(b_input.builder)
    /\ b_out.gdml = NotCalled
    /\ b_out' = [b_out EXCEPT !.gdml = BuilderResult(b_input, TRUE)]
    /\ UNCHANGED b_input
    /\ UNCHANGED <<constructVars, mergeVars, amendVars, laterVars>>

\* The builder is called with from_gdml=False.
CallDirectPath ==
    /\ b_out.python = NotCalled
    /\ b_out' = [b_out EXCEPT !.python = BuilderResult(b_input, FALSE)]
    /\ UNCHANGED b_input
    /\ UNCHANGED <<constructVars, mergeVars, amendVars, laterVars>>

(***************************************************************************)
(* utils.parse_measurement.  The function is called by the tests but is    *)
(* defined in no file of src/: it is modelled from the grammar             *)
(* "<source>_<HSn>_<position>_<id>" with its one legacy rename.  A text is *)
(* a sequence of characters.                                               *)
(***************************************************************************)
\* What each of the four fields of an identifier is drawn from.
FieldChoices ==
    <<{<<"a", "m">>, <<"c", "s">>, <<"t", "h">>},
      {<<"H", "S", "1">>, <<"H", "S", "2">>, <<"H", "S", "6">>},
      {<<"t", "o", "p">>, <<"l", "a", "t">>, <<"b", "o", "t", "t", "o", "m">>},
      {<<"d", "l", "t">>, <<"f", "o", "o">>}>>

\* "_".join(parts)
RECURSIVE Join(_)
Join(parts) ==
    IF Len(parts) = 1 THEN parts[1]
    ELSE parts[1] \o <<"_">> \o Join(Tail(parts))

SourceLabels == {Join(<<f, h>>) : f \in FieldChoices[1], h \in FieldChoices[2]}

\* The labels tests/test_utils.py shows to be kept as they are.
KeptLabels ==
    {Join(<<(<<"c", "s">>), (<<"H", "S", "2">>)>>),
     Join(<<(<<"a", "m">>), (<<"H", "S", "1">>)>>),
     Join(<<(<<"a", "m">>), (<<"H", "S", "6">>)>>)}

\* measurement.split("_")
RECURSIVE Split(_)
Split(text) ==
    IF \A i \in DOMAIN text : text[i] # "_" THEN <<text>>
    ELSE LET i == CHOOSE k \in DOMAIN text :
                      text[k] = "_" /\ \A j \in 1..(k - 1) : text[j] # "_"
         IN  <<SubSeq(text, 1, i - 1)>> \o Split(SubSeq(text, i + 1, Len(text)))

\* The name the legacy label is given: one that is no label of the grammar.
Renamed(label) == <<"legacy">> \o label

LegacyRenameWholeSource(label, legacy) ==
    IF SubSeq(label, 1, 2) = SubSeq(legacy, 1, 2) THEN Renamed(label) ELSE label

\* The legacy rename: one historical label is given another name.
LegacyRename(label, legacy) ==
    IF label = legacy THEN Renamed(label) ELSE label

\* parse_measurement(measurement)
ParseMeasurement(text, legacy) ==
    LET split == Split(text)
    IN  IF Len(split) < 4 THEN Raise("IndexError")
        ELSE [status |-> "ok",
              source |-> LegacyRename(Join(<<split[1], split[2]>>), legacy),
              position |-> split[3], id |-> split[4]]

ParseIdle ==
    /\ fields = << >>
    /\ measurement = << >>
    /\ parse_out = NotCalled

\* A caller writes a measurement identifier.
ChooseMeasurement(f) ==
    /\ fields' = f
    /\ measurement' = Join(f)
    /\ parse_out' = NotCalled
    /\ UNCHANGED legacy_label
    /\ UNCHANGED <<constructVars, mergeVars, amendVars, buildVars, proxyVars, sourceVars>>

\* out = utils.parse_measurement(measurement)
CallParse ==
    /\ measurement # << >>
    /\ parse_out = NotCalled
    /\ parse_out' = ParseMeasurement(measurement, legacy_label)
    /\ UNCHANGED <<legacy_label, fields, measurement>>
    /\ UNCHANGED <<constructVars, mergeVars, amendVars, buildVars, proxyVars, sourceVars>>

(***************************************************************************)
(* metadata.py: _DiodeProxy and _CryostatProxy.  An identifier is a        *)
(* sequence of characters.  A stored reference record is an object whose   *)
(* `production` field refers to a second object; copy.copy makes a new     *)
(* record whose fields refer to the same objects as the original's.        *)
(***************************************************************************)
\* Most lookups made on the proxies.
MaxLookups == 2

\* The identifiers asked for: those of the tests and one of a letter that
\* has no reference record.
DetectorNames ==
    {<<"V", "0", "7", "3", "0", "2", "A">>, <<"V", "0", "2", "1", "6", "0", "B">>,
     <<"B", "0", "0", "0", "0", "0", "B">>, <<"V", "1", "2", "3", "4", "5", "6", "A">>,
     <<"Z", "0", "0", "0", "0", "0", "Z">>}

\* The keys of dummy_detectors and of dummy_cryostats.
StoredKeys ==
    {<<"V", "9", "9", "0", "0", "0", "A">>, <<"B", "9", "9", "0", "0", "0", "A">>}

\* det_name[0] + "99000A"
ReferenceKey(det_name) == <<det_name[1]>> \o <<"9", "9", "0", "0", "0", "A">>

\* int(det_name[1:3])
ProductionOrder(det_name) == DigitsValue(SubSeq(det_name, 2, 3))

\* The production object of the reference record `key` as it is stored.
OriginalProduction(key) == [order |-> ProductionOrder(key), slice |-> "A"]

\* m = copy.copy(det); m.name = det_name: a new record of that name whose
\* production field refers to the production object of det.
CopyRenamed(proxy, key, det_name) ==
    [name |-> det_name, proxy |-> proxy, production |-> key]

\* m.production.order = int(det_name[1:3]); m.production.slice = "A": the
\* object m.production refers to is assigned to.
SetProduction(objs, key, det_name) ==
    [objs EXCEPT ![key] = [order |-> ProductionOrder(det_name), slice |-> "A"]]

ProxyIdle ==
    /\ objects = [k \in StoredKeys |-> OriginalProduction(k)]
    /\ results = << >>
    /\ last_call = [status |-> "none", op |-> "none"]

\* _DiodeProxy.__getitem__(det_name)
DiodeGetItem(det_name) ==
    /\ Len(results) < MaxLookups
    /\ IF ReferenceKey(det_name) \notin StoredKeys
       THEN /\ last_call' = [status |-> "KeyError", op |-> "getitem"]
            /\ UNCHANGED <<objects, results>>
       ELSE /\ results' = Append(results,
                              CopyRenamed("diodes", ReferenceKey(det_name), det_name))
            /\ objects' = SetProduction(objects, ReferenceKey(det_name), det_name)
            /\ last_call' = [status |-> "ok", op |-> "getitem"]
    /\ UNCHANGED <<constructVars, mergeVars, amendVars, buildVars, parseVars,
                   sourceVars>>

\* _CryostatProxy.__getitem__(det_name)
CryostatGetItem(det_name) ==
    /\ Len(results) < MaxLookups
    /\ IF ReferenceKey(det_name) \notin StoredKeys
       THEN /\ last_call' = [status |-> "KeyError", op |-> "getitem"]
            /\ UNCHANGED results
       ELSE /\ results' = Append(results,
                              CopyRenamed("cryostat", ReferenceKey(det_name), det_name))
            /\ last_call' = [status |-> "ok", op |-> "getitem"]
    /\ UNCHANGED objects
    /\ UNCHANGED <<constructVars, mergeVars, amendVars, buildVars, parseVars,
                   sourceVars>>

\* _DiodeProxy.keys(): `return self.dummy_detector.keys()`, while __init__
\* assigns self.dummy_detectors.
DiodeKeys ==
    /\ last_call' = [status |-> "AttributeError", op |-> "diodes.keys"]
    /\ UNCHANGED <<objects, results>>
    /\ UNCHANGED <<constructVars, mergeVars, amendVars, buildVars, parseVars,
                   sourceVars>>

\* _CryostatProxy.keys(): `return self.dummy_cryostats.keys()`
CryostatKeys ==
    /\ last_call' = [status |-> "ok", op |-> "cryostat.keys", value |-> StoredKeys]
    /\ UNCHANGED <<objects, results>>
    /\ UNCHANGED <<constructVars, mergeVars, amendVars, buildVars, parseVars,
                   sourceVars>>

(***************************************************************************)
(* create_volumes.py: create_source and create_source_holder.  Both only   *)
(* have a template path.  What their template files describe is not part   *)
(* of the sources: the volume is known by its file and the values it was   *)
(* given.                                                                  *)
(***************************************************************************)
\* The source types asked for: the five of the docstring and one more.
SourceTypes == {"am_collimated", "am", "ba", "co", "th", "cs"}

MeasTypes == {"lat", "top"}

\* source_dims, in the format of the docstring of create_source.
SourceRecord(d) ==
    [width |-> 600 + d, height |-> 300 + d,
     plates |-> [width |-> 5000 + d, height |-> 1000 + d, cavity_width |-> 500 + d],
     foil |-> [width |-> 400 + d, height |-> 10 + d],
     al_ring |-> [height |-> 300 + d, width_max |-> 2500 + d,
                  width_min |-> 2000 + d],
     capsule |-> [width |-> 800 + d, height |-> 500 + d, depth |-> 700 + d],
     collimator |-> [width |-> 3000 + d, height |-> 4000 + d, depth |-> 2000 + d,
                     beam_width |-> 100 + d, beam_height |-> 200 + d,
                     window |-> 20 + d],
     epoxy |-> [width |-> 500 + d, height |-> 200 + d],
     offset_height |-> 150 + d]

\* holder_dims: the fields the two builders read.
HolderRecord(d) ==
    [source |-> [height |-> 2000 + d, cavity_height |-> 1500 + d,
                 top_plate_height |-> 300 + d, top_height |-> 1000 + d,
                 top_bottom_height |-> 400 + d, top_plate_width |-> 9000 + d,
                 top_plate_depth |-> 8000 + d, top_inner_width |-> 3000 + d,
                 top_inner_depth |-> 2500 + d, bottom_inner_width |-> 2000 + d],
     outer_width |-> 10200 + d, inner_width |-> 9000 + d,
     holder_width |-> 11000 + d,
     copper |-> [width |-> 3000 + d, height |-> 1500 + d, cavity_width |-> 2000 + d,
                 bottom_height |-> 300 + d, bottom_width |-> 2500 + d]]

\* The records a source builder is called with: complete, or lacking a field.
SourceDimRecords ==
    {SourceRecord(d) : d \in Offsets}
    \cup {Without(SourceRecord(0), p) : p \in {<<"width">>, <<"capsule", "width">>}}

\* holder_dims may also be None, which has no field at all.
HolderDimRecords ==
    {HolderRecord(d) : d \in Offsets}
    \cup {Without(HolderRecord(0), p) : p \in {<<"outer_width">>, <<"copper">>}}
    \cup {<< >>}

\* The volume read_gdml_with_replacements(dummy_gdml_path, replacements) gives.
ReadSourceTemplate(file, repl) ==
    LogicalVolume(TemplateSolid(file, Substituted(repl)), "template", file)

\* The accesses `reads`, paired with the placeholders `keys` they fill.
Replacements(rec, keys, reads) == [i \in DOMAIN keys |-> <<keys[i], V(rec, reads[i])>>]

\* create_source from `dummy_gdml_path = ...` on: the source type selects the
\* replacement map, an unsupported one raises.
SourceFromTemplate(source_type, source_dims, holder_dims) ==
    LET file == "source_" \o source_type \o "_dummy.gdml"
        rec == [source_dims |-> source_dims, holder_dims |-> holder_dims]
        keys ==
            CASE source_type = "am_collimated" ->
                     <<"source_height", "source_width", "source_capsule_height",
                       "source_capsule_width", "window_source", "collimator_height",
                       "collimator_depth", "collimator_width",
                       "collimator_beam_height", "collimator_beam_width">>
              [] source_type = "am" ->
                     <<"source_height", "source_width", "source_capsule_height",
                       "source_capsule_width", "source_capsule_depth">>
              [] source_type \in {"ba", "co"} ->
                     <<"source_height", "source_width", "source_foil_height",
                       "source_Alring_height", "source_Alring_width_min",
                       "source_Alring_width_max">>
              [] source_type = "th" ->
                     <<"source_height", "source_width", "source_capsule_height",
                       "source_capsule_width", "source_epoxy_height",
                       "source_epoxy_width", "CuSource_holder_height",
                       "CuSource_holder_width", "CuSource_holder_cavity_width",
                       "CuSource_holder_bottom_height",
                       "CuSource_holder_bottom_width", "source_offset_height">>
              [] OTHER -> << >>
        reads ==
            CASE source_type = "am_collimated" ->
                     <<(<<"source_dims", "height">>), (<<"source_dims", "width">>),
                       (<<"source_dims", "capsule", "height">>),
                       (<<"source_dims", "capsule", "width">>),
                       (<<"source_dims", "collimator", "window">>),
                       (<<"source_dims", "collimator", "height">>),
                       (<<"source_dims", "collimator", "depth">>),
                       (<<"source_dims", "collimator", "width">>),
                       (<<"source_dims", "collimator", "beam_height">>),
                       (<<"source_dims", "collimator", "beam_width">>)>>
              [] source_type = "am" ->
                     <<(<<"source_dims", "height">>), (<<"source_dims", "width">>),
                       (<<"source_dims", "capsule", "height">>),
                       (<<"source_dims", "capsule", "width">>),
                       (<<"source_dims", "capsule", "depth">>)>>
              [] source_type \in {"ba", "co"} ->
                     <<(<<"source_dims", "height">>), (<<"source_dims", "width">>),
                       (<<"source_dims", "foil", "height">>),
                       (<<"source_dims", "al_ring", "height">>),
                       (<<"source_dims", "al_ring", "width_min">>),
                       (<<"source_dims", "al_ring", "width_max">>)>>
              [] source_type = "th" ->
                     <<(<<"source_dims", "height">>), (<<"source_dims", "width">>),
                       (<<"source_dims", "capsule", "height">>),
                       (<<"source_dims", "capsule", "width">>),
                       (<<"source_dims", "epoxy", "height">>),
                       (<<"source_dims", "epoxy", "width">>),
                       (<<"holder_dims", "copper", "height">>),
                       (<<"holder_dims", "copper", "width">>),
                       (<<"holder_dims", "copper", "cavity_width">>),
                       (<<"holder_dims", "copper", "bottom_height">>),
                       (<<"holder_dims", "copper", "bottom_width">>),
                       (<<"source_dims", "offset_height">>)>>
              [] OTHER -> << >>
    IN  IF Raising(rec, reads) # {}
        THEN Raise("AttributeError")
        ELSE IF keys = << >>
        THEN Raise("RuntimeError")
        ELSE ReadSourceTemplate(file, Replacements(rec, keys, reads))

CreateSourceTypeFirst(source_type, source_dims, holder_dims, from_gdml) ==
    IF SourceFromTemplate(source_type, source_dims, holder_dims)
           = Raise("RuntimeError")
    THEN Raise("RuntimeError")
    ELSE IF ~from_gdml
    THEN Raise("NotImplementedError")
    ELSE SourceFromTemplate(source_type, source_dims, holder_dims)

\* create_source(source_type, source_dims, holder_dims, from_gdml)
CreateSource(source_type, source_dims, holder_dims, from_gdml) ==
    IF ~from_gdml
    THEN Raise("NotImplementedError")
    ELSE SourceFromTemplate(source_type, source_dims, holder_dims)

SourceHolderFileAnyMeas(source_type, meas_type) ==
    IF source_type = "th"
    THEN "source_holder_th_lat_dummy.gdml"
    ELSE IF source_type \in {"am_collimated", "ba", "co", "th"}
    THEN "source_holder_dummy.gdml"
    ELSE IF source_type = "am"
    THEN "source_holder_am_dummy.gdml"
    ELSE "none"

\* The if/elif chain of create_source_holder: the template file it selects,
\* "none" where it raises instead.
SourceHolderFile(source_type, meas_type) ==
    IF source_type = "th" /\ meas_type = "lat"
    THEN "source_holder_th_lat_dummy.gdml"
    ELSE IF source_type \in {"am_collimated", "ba", "co", "th"}
    THEN "source_holder_dummy.gdml"
    ELSE IF source_type = "am"
    THEN "source_holder_am_dummy.gdml"
    ELSE "none"

\* create_source_holder from `source_holder = holder_dims` on.
SourceHolderFromTemplate(source_type, holder_dims, source_z, meas_type) ==
    LET file == SourceHolderFile(source_type, meas_type)
        rec == [holder_dims |-> holder_dims, source_z |-> source_z]
        keys ==
            CASE file = "source_holder_th_lat_dummy.gdml" ->
                     <<"cavity_source_holder_height", "source_holder_height",
                       "source_holder_outer_width", "source_holder_inner_width",
                       "cavity_source_holder_width">>
              [] file = "source_holder_dummy.gdml" ->
                     <<"source_holder_top_plate_height", "source_holder_top_height",
                       "source_holder_topbottom_height",
                       "source_holder_top_plate_width",
                       "source_holder_top_inner_width", "source_holder_inner_width",
                       "source_holder_bottom_inner_width",
                       "source_holder_outer_width",
                       "position_source_fromcryostat_z">>
              [] file = "source_holder_am_dummy.gdml" ->
                     <<"source_holder_top_height", "position_source_fromcryostat_z",
                       "source_holder_top_plate_height",
                       "source_holder_top_plate_width",
                       "source_holder_top_plate_depth",
                       "source_holder_topbottom_height",
                       "source_holder_top_inner_width",
                       "source_holder_top_inner_depth", "source_holder_inner_width",
                       "source_holder_bottom_inner_width",
                       "source_holder_outer_width">>
              [] OTHER -> << >>
        reads ==
            CASE file = "source_holder_th_lat_dummy.gdml" ->
                     <<(<<"holder_dims", "source", "cavity_height">>),
                       (<<"holder_dims", "source", "height">>),
                       (<<"holder_dims", "outer_width">>),
                       (<<"holder_dims", "inner_width">>),
                       (<<"holder_dims", "holder_width">>)>>
              [] file = "source_holder_dummy.gdml" ->
                     <<(<<"holder_dims", "source", "top_plate_height">>),
                       (<<"holder_dims", "source", "top_height">>),
                       (<<"holder_dims", "source", "top_bottom_height">>),
                       (<<"holder_dims", "source", "top_plate_width">>),
                       (<<"holder_dims", "source", "top_inner_width">>),
                       (<<"holder_dims", "inner_width">>),
                       (<<"holder_dims", "source", "bottom_inner_width">>),
                       (<<"holder_dims", "outer_width">>), (<<"source_z">>)>>
              [] file = "source_holder_am_dummy.gdml" ->
                     <<(<<"holder_dims", "source", "top_height">>), (<<"source_z">>),
                       (<<"holder_dims", "source", "top_plate_height">>),
                       (<<"holder_dims", "source", "top_plate_width">>),
                       (<<"holder_dims", "source", "top_plate_depth">>),
                       (<<"holder_dims", "source", "top_bottom_height">>),
                       (<<"holder_dims", "source", "top_inner_width">>),
                       (<<"holder_dims", "source", "top_inner_depth">>),
                       (<<"holder_dims", "inner_width">>),
                       (<<"holder_dims", "source", "bottom_inner_width">>),
                       (<<"holder_dims", "outer_width">>)>>
              [] OTHER -> << >>
    IN  IF Raising(rec, reads) # {}
        THEN Raise("AttributeError")
        ELSE IF file = "none"
        THEN Raise("RuntimeError")
        ELSE ReadSourceTemplate(file, Replacements(rec, keys, reads))

\* create_source_holder(source_type, holder_dims, source_z, meas_type, from_gdml)
CreateSourceHolder(source_type, holder_dims, source_z, meas_type, from_gdml) ==
    IF ~from_gdml
    THEN Raise("NotImplementedError")
    ELSE SourceHolderFromTemplate(source_type, holder_dims, source_z, meas_type)

SourceIdle ==
    /\ s_input = [from_gdml |-> FALSE, source_dims |-> SourceRecord(0),
                  builder |-> "source", source_type |-> "am",
                  holder_dims |-> << >>, meas_type |-> "lat", source_z |-> 0]
    /\ s_out = NotCalled

\* A caller picks one of the two builders and its arguments.
ChooseSourceInput(b, st, mt, g, sd, hd, z) ==
    /\ s_input' = [from_gdml |-> g, source_dims |-> sd, builder |-> b,
                   source_type |-> st, holder_dims |-> hd, meas_type |-> mt,
                   source_z |-> z]
    /\ s_out' = NotCalled
    /\ UNCHANGED <<constructVars, mergeVars, amendVars, buildVars, parseVars,
                   proxyVars>>

\* The builder is called.
CallSourceBuilder ==
    /\ s_out = NotCalled
    /\ s_out' = IF s_input.builder = "source"
                THEN CreateSource(s_input.source_type, s_input.source_dims,
                                  s_input.holder_dims, s_input.from_gdml)
                ELSE CreateSourceHolder(s_input.source_type, s_input.holder_dims,
                                        s_input.source_z, s_input.meas_type,
                                        s_input.from_gdml)
    /\ UNCHANGED s_input
    /\ UNCHANGED <<constructVars, mergeVars, amendVars, buildVars, parseVars,
                   proxyVars>>

(***************************************************************************)
(* The replacement maps of the builders, as amend_gdml is given them: the  *)
(* keys of every dict literal `replacements = {...}` of create_volumes.py, *)
(* in the order they are written, each key a sequence of characters.       *)
(***************************************************************************)
BuilderReplacementKeys ==
    LET
        k_wrap == <<"w", "r", "a", "p">>
        k_outer == <<"o", "u", "t", "e", "r">>
        k_height == <<"h", "e", "i", "g", "h", "t">>
        k_in == <<"i", "n">>
        k_mm == <<"m", "m">>
        k_radius == <<"r", "a", "d", "i", "u", "s">>
        k_inner == <<"i", "n", "n", "e", "r">>
        k_top == <<"t", "o", "p">>
        k_thickness == <<"t", "h", "i", "c", "k", "n", "e", "s", "s">>
        k_max == <<"m", "a", "x">>
        k_bottom == <<"b", "o", "t", "t", "o", "m">>
        k_cyl == <<"c", "y", "l">>
        k_edge == <<"e", "d", "g", "e">>
        k_pos == <<"p", "o", "s">>
        k_ring == <<"r", "i", "n", "g">>
        k_end == <<"e", "n", "d">>
        k_position == <<"p", "o", "s", "i", "t", "i", "o", "n">>
        k_plate == <<"p", "l", "a", "t", "e">>
        k_width == <<"w", "i", "d", "t", "h">>
        k_depth == <<"d", "e", "p", "t", "h">>
        k_cavity == <<"c", "a", "v", "i", "t", "y">>
        k_base == <<"b", "a", "s", "e">>
        k_1 == <<"1">>
        k_front == <<"f", "r", "o", "n", "t">>
        k_2 == <<"2">>
        k_copper == <<"c", "o", "p", "p", "e", "r">>
        k_source == <<"s", "o", "u", "r", "c", "e">>
        k_capsule == <<"c", "a", "p", "s", "u", "l", "e">>
        k_window == <<"w", "i", "n", "d", "o", "w">>
        k_collimator == <<"c", "o", "l", "l", "i", "m", "a", "t", "o", "r">>
        k_beam == <<"b", "e", "a", "m">>
        k_foil == <<"f", "o", "i", "l">>
        k_Alring == <<"A", "l", "r", "i", "n", "g">>
        k_min == <<"m", "i", "n">>
        k_epoxy == <<"e", "p", "o", "x", "y">>
        k_CuSource == <<"C", "u", "S", "o", "u", "r", "c", "e">>
        k_holder == <<"h", "o", "l", "d", "e", "r">>
        k_offset == <<"o", "f", "f", "s", "e", "t">>
        k_plates == <<"p", "l", "a", "t", "e", "s">>
        k_topbottom == <<"t", "o", "p", "b", "o", "t", "t", "o", "m">>
        k_fromcryostat == <<"f", "r", "o", "m", "c", "r", "y", "o", "s", "t", "a", "t">>
        k_z == <<"z">>
        k_cryostat == <<"c", "r", "y", "o", "s", "t", "a", "t">>
        k_fromTop == <<"f", "r", "o", "m", "T", "o", "p">>
        k_fromBottom == <<"f", "r", "o", "m", "B", "o", "t", "t", "o", "m">>
    IN  <<
          \* create_wrap, lines 92-97
          <<Join(<<k_wrap, k_outer, k_height, k_in, k_mm>>),
             Join(<<k_wrap, k_outer, k_radius, k_in, k_mm>>),
             Join(<<k_wrap, k_inner, k_radius, k_in, k_mm>>),
             Join(<<k_wrap, k_top, k_thickness, k_in, k_mm>>)>>,
          \* create_holder, lines 173-188
          <<Join(<<k_max, k_radius, k_in, k_mm>>),
             Join(<<k_outer, k_height, k_in, k_mm>>),
             Join(<<k_inner, k_height, k_in, k_mm>>),
             Join(<<k_outer, k_radius, k_in, k_mm>>),
             Join(<<k_inner, k_radius, k_in, k_mm>>),
             Join(<<k_outer, k_bottom, k_cyl, k_radius, k_in, k_mm>>),
             Join(<<k_inner, k_bottom, k_cyl, k_radius, k_in, k_mm>>),
             Join(<<k_edge, k_height, k_in, k_mm>>),
             Join(<<k_pos, k_top, k_ring, k_in, k_mm>>),
             Join(<<k_pos, k_bottom, k_ring, k_in, k_mm>>),
             Join(<<k_end, k_top, k_ring, k_in, k_mm>>),
             Join(<<k_end, k_bottom, k_ring, k_in, k_mm>>),
             Join(<<k_end, k_bottom, k_cyl, k_outer, k_in, k_mm>>),
             Join(<<k_end, k_bottom, k_cyl, k_inner, k_in, k_mm>>)>>,
          \* create_holder, lines 197-205
          <<Join(<<k_max, k_radius, k_in, k_mm>>),
             Join(<<k_outer, k_height, k_in, k_mm>>),
             Join(<<k_inner, k_height, k_in, k_mm>>),
             Join(<<k_outer, k_radius, k_in, k_mm>>),
             Join(<<k_inner, k_radius, k_in, k_mm>>),
             Join(<<k_position, k_top, k_ring, k_in, k_mm>>),
             Join(<<k_end, k_top, k_ring, k_in, k_mm>>)>>,
          \* create_bottom_plate, lines 280-287
          <<Join(<<k_bottom, k_plate, k_width>>),
             Join(<<k_bottom, k_plate, k_depth>>),
             Join(<<k_bottom, k_plate, k_height>>),
             Join(<<k_bottom, k_cavity, k_plate, k_width>>),
             Join(<<k_bottom, k_cavity, k_plate, k_depth>>),
             Join(<<k_bottom, k_cavity, k_plate, k_height>>)>>,
          \* create_lead_castle, lines 367-383
          <<Join(<<k_base, k_width, k_1>>),
             Join(<<k_base, k_depth, k_1>>),
             Join(<<k_base, k_height, k_1>>),
             Join(<<k_inner, k_cavity, k_width, k_1>>),
             Join(<<k_inner, k_cavity, k_depth, k_1>>),
             Join(<<k_inner, k_cavity, k_height, k_1>>),
             Join(<<k_cavity, k_width, k_1>>),
             Join(<<k_cavity, k_depth, k_1>>),
             Join(<<k_cavity, k_height, k_1>>),
             Join(<<k_top, k_width, k_1>>),
             Join(<<k_top, k_depth, k_1>>),
             Join(<<k_top, k_height, k_1>>),
             Join(<<k_front, k_width, k_1>>),
             Join(<<k_front, k_depth, k_1>>),
             Join(<<k_front, k_height, k_1>>)>>,
          \* create_lead_castle, lines 386-399
          <<Join(<<k_base, k_width, k_2>>),
             Join(<<k_base, k_depth, k_2>>),
             Join(<<k_base, k_height, k_2>>),
             Join(<<k_inner, k_cavity, k_width, k_2>>),
             Join(<<k_inner, k_cavity, k_depth, k_2>>),
             Join(<<k_inner, k_cavity, k_height, k_2>>),
             Join(<<k_top, k_width, k_2>>),
             Join(<<k_top, k_depth, k_2>>),
             Join(<<k_top, k_height, k_2>>),
             Join(<<k_copper, k_plate, k_width>>),
             Join(<<k_copper, k_plate, k_depth>>),
             Join(<<k_copper, k_plate, k_height>>)>>,
          \* create_source, lines 576-587
          <<Join(<<k_source, k_height>>),
             Join(<<k_source, k_width>>),
             Join(<<k_source, k_capsule, k_height>>),
             Join(<<k_source, k_capsule, k_width>>),
             Join(<<k_window, k_source>>),
             Join(<<k_collimator, k_height>>),
             Join(<<k_collimator, k_depth>>),
             Join(<<k_collimator, k_width>>),
             Join(<<k_collimator, k_beam, k_height>>),
             Join(<<k_collimator, k_beam, k_width>>)>>,
          \* create_source, lines 590-596
          <<Join(<<k_source, k_height>>),
             Join(<<k_source, k_width>>),
             Join(<<k_source, k_capsule, k_height>>),
             Join(<<k_source, k_capsule, k_width>>),
             Join(<<k_source, k_capsule, k_depth>>)>>,
          \* create_source, lines 599-606
          <<Join(<<k_source, k_height>>),
             Join(<<k_source, k_width>>),
             Join(<<k_source, k_foil, k_height>>),
             Join(<<k_source, k_Alring, k_height>>),
             Join(<<k_source, k_Alring, k_width, k_min>>),
             Join(<<k_source, k_Alring, k_width, k_max>>)>>,
          \* create_source, lines 609-622
          <<Join(<<k_source, k_height>>),
             Join(<<k_source, k_width>>),
             Join(<<k_source, k_capsule, k_height>>),
             Join(<<k_source, k_capsule, k_width>>),
             Join(<<k_source, k_epoxy, k_height>>),
             Join(<<k_source, k_epoxy, k_width>>),
             Join(<<k_CuSource, k_holder, k_height>>),
             Join(<<k_CuSource, k_holder, k_width>>),
             Join(<<k_CuSource, k_holder, k_cavity, k_width>>),
             Join(<<k_CuSource, k_holder, k_bottom, k_height>>),
             Join(<<k_CuSource, k_holder, k_bottom, k_width>>),
             Join(<<k_source, k_offset, k_height>>)>>,
          \* create_th_plate, lines 646-650
          <<Join(<<k_source, k_plates, k_height>>),
             Join(<<k_source, k_plates, k_width>>),
             Join(<<k_source, k_plates, k_cavity, k_width>>)>>,
          \* create_source_holder, lines 722-728
          <<Join(<<k_cavity, k_source, k_holder, k_height>>),
             Join(<<k_source, k_holder, k_height>>),
             Join(<<k_source, k_holder, k_outer, k_width>>),
             Join(<<k_source, k_holder, k_inner, k_width>>),
             Join(<<k_cavity, k_source, k_holder, k_width>>)>>,
          \* create_source_holder, lines 733-743
          <<Join(<<k_source, k_holder, k_top, k_plate, k_height>>),
             Join(<<k_source, k_holder, k_top, k_height>>),
             Join(<<k_source, k_holder, k_topbottom, k_height>>),
             Join(<<k_source, k_holder, k_top, k_plate, k_width>>),
             Join(<<k_source, k_holder, k_top, k_inner, k_width>>),
             Join(<<k_source, k_holder, k_inner, k_width>>),
             Join(<<k_source, k_holder, k_bottom, k_inner, k_width>>),
             Join(<<k_source, k_holder, k_outer, k_width>>),
             Join(<<k_position, k_source, k_fromcryostat, k_z>>)>>,
          \* create_source_holder, lines 748-760
          <<Join(<<k_source, k_holder, k_top, k_height>>),
             Join(<<k_position, k_source, k_fromcryostat, k_z>>),
             Join(<<k_source, k_holder, k_top, k_plate, k_height>>),
             Join(<<k_source, k_holder, k_top, k_plate, k_width>>),
             Join(<<k_source, k_holder, k_top, k_plate, k_depth>>),
             Join(<<k_source, k_holder, k_topbottom, k_height>>),
             Join(<<k_source, k_holder, k_top, k_inner, k_width>>),
             Join(<<k_source, k_holder, k_top, k_inner, k_depth>>),
             Join(<<k_source, k_holder, k_inner, k_width>>),
             Join(<<k_source, k_holder, k_bottom, k_inner, k_width>>),
             Join(<<k_source, k_holder, k_outer, k_width>>)>>,
          \* create_cryostat, lines 784-790
          <<Join(<<k_cryostat, k_height>>),
             Join(<<k_cryostat, k_width>>),
             Join(<<k_cryostat, k_thickness>>),
             Join(<<k_position, k_cryostat, k_cavity, k_fromTop>>),
             Join(<<k_position, k_cryostat, k_cavity, k_fromBottom>>)>>
        >>

BuilderReplacementsReversed(keys) ==
    [i \in DOMAIN keys |->
        <<keys[Len(keys) + 1 - i], 100 * (Len(keys) + 1 - i)>>]

\* replacements.items() of a builder's map: the keys in the order the dict
\* literal lists them, the i-th with the value i mm, so that each key has a
\* value of its own.
BuilderReplacements(keys) == [i \in DOMAIN keys |-> <<keys[i], 100 * i>>]

\* A template text that uses two placeholders of a map.
BuilderTemplate(keys, i, j) == keys[i] \o <<" ">> \o keys[j]

(***************************************************************************)
(* The specifications.                                                     *)
(***************************************************************************)
\* construct(): every selection over the known names and one unknown name.
LaterIdle ==
    /\ ParseIdle
    /\ ProxyIdle
    /\ SourceIdle
    /\ legacy_label = Join(<<(<<"t", "h">>), (<<"H", "S", "1">>)>>)

Init == ConstructIdle /\ MergeIdle /\ AmendIdle /\ BuildIdle /\ LaterIdle

\* A caller invokes construct() with some arguments.
CallConstruct ==
    /\ pc = "idle"
    /\ \E S \in SUBSET AssemblyNames, cfg \in ConfigChoices, pg \in BOOLEAN,
          gn \in GedNames : Call(S, cfg, pg, gn)

Next ==
    \/ CallConstruct
    \/ Acquire
    \/ Guard
    \/ MergeConfigs
    \/ UpdateCryostatDims
    \/ CreateWorld
    \/ AssemblyBlock
    \/ ViewAndReturn
    \/ Finish

Spec == Init /\ [][Next]_vars

\* utils.merge_configs(): repeated merges into one record.
InitMerge ==
    /\ ConstructIdle
    /\ AmendIdle
    /\ BuildIdle
    /\ LaterIdle
    /\ \E v \in EnrichmentVals :
          /\ diode_meta = MergeRecord(v)
          /\ first_val = v
    /\ merges = 0
    /\ last_merge = [extra_meta |-> "dims_a", extra_name |-> "hades", outcome |-> "none"]

NextMerge == \E m \in ExtraMetas, k \in ExtraNames : Merge(m, k)

SpecMerge == InitMerge /\ [][NextMerge]_vars

\* utils.amend_gdml(): every template text and replacement map up to the bounds.
CallAmend ==
    /\ a_pc = "idle"
    /\ \E t \in Texts, m \in ReplacementMaps, w \in BOOLEAN : AmendCall(t, m, w)

NextAmend ==
    \/ CallAmend
    \/ ReadText
    \/ ReplaceStep
    \/ OpenTemp
    \/ WriteFlush
    \/ Parse
    \/ WriteGdml
    \/ Return
    \/ ExitWith
    \/ AmendFinish

SpecAmend == Init /\ [][NextAmend]_vars

\* The builders: every builder on both paths, for every record of DimRecords.
ChooseBuilderInput ==
    \E b \in Builders :
        \E dt \in (IF b = "holder" THEN DetTypes ELSE {"bege"}),
           tn \in (IF b = "lead_castle" THEN TableNums ELSE {1}) :
            \E r \in DimRecords(b) : ChooseInput(b, dt, tn, r)

NextBuild ==
    \/ ChooseBuilderInput
    \/ CallTemplatePath
    \/ CallDirectPath

SpecBuild == Init /\ [][NextBuild]_vars

\* utils.parse_measurement(): every identifier of the grammar, for every
\* label the legacy rename may be the one of.
InitParse ==
    /\ ConstructIdle
    /\ MergeIdle
    /\ AmendIdle
    /\ BuildIdle
    /\ ParseIdle
    /\ ProxyIdle
    /\ SourceIdle
    /\ legacy_label \in SourceLabels \ KeptLabels

ChooseIdentifier ==
    \E f \in FieldChoices[1] \X FieldChoices[2] \X FieldChoices[3] \X FieldChoices[4] :
        ChooseMeasurement(f)

NextParse ==
    \/ ChooseIdentifier
    \/ CallParse

SpecParse == InitParse /\ [][NextParse]_vars

\* The placeholder proxies: lookups and keys() in any order.
NextProxy ==
    \/ \E n \in DetectorNames : DiodeGetItem(n)
    \/ \E n \in DetectorNames : CryostatGetItem(n)
    \/ DiodeKeys
    \/ CryostatKeys

SpecProxy == Init /\ [][NextProxy]_vars

\* The source builders: either builder, every source type, on both paths.
ChooseSourceBuilderInput ==
    \E b \in {"source", "source_holder"}, st \in SourceTypes, mt \in MeasTypes,
       g \in BOOLEAN, z \in Offsets :
        \E sd \in (IF b = "source" THEN SourceDimRecords ELSE {SourceRecord(0)}),
           hd \in (IF b = "source" /\ st # "th" THEN {<< >>} ELSE HolderDimRecords) :
            ChooseSourceInput(b, st, IF b = "source" THEN "lat" ELSE mt, g, sd, hd,
                              IF b = "source" THEN 0 ELSE z)

NextSource ==
    \/ ChooseSourceBuilderInput
    \/ CallSourceBuilder

SpecSource == Init /\ [][NextSource]_vars

\* A builder on its template path: amend_gdml is given a template of the
\* builder and the builder's replacement map.
CallBuilderAmend ==
    /\ a_pc = "idle"
    /\ \E n \in DOMAIN BuilderReplacementKeys :
          \E i, j \in DOMAIN BuilderReplacementKeys[n] :
              AmendCall(BuilderTemplate(BuilderReplacementKeys[n], i, j),
                        BuilderReplacements(BuilderReplacementKeys[n]), FALSE)

NextSubst ==
    \/ CallBuilderAmend
    \/ ReadText
    \/ ReplaceStep
    \/ OpenTemp
    \/ WriteFlush
    \/ Parse
    \/ Return
    \/ ExitWith
    \/ AmendFinish

SpecSubst == Init /\ [][NextSubst]_vars

(***************************************************************************)
(* Helpers for the properties.                                             *)
(***************************************************************************)
InSeq(x, q) == \E i \in 1..Len(q) : q[i] = x

NoDuplicates(q) == \A i, j \in 1..Len(q) : q[i] = q[j] => i = j

\* The registry holds a placement of this name, volume and mother.
HasPv(r, name, lv, mother) ==
    \E i \in 1..Len(r.pvs) :
        r.pvs[i] = [name |-> name, lv |-> lv, mother |-> mother]

PlacementsOf(r, lv) == {i \in 1..Len(r.pvs) : r.pvs[i].lv = lv}

\* The detector record was resolved: merge_configs returned it.
Resolved == ged_diode_meta = "source"

\* Number of placement paths from the world volume down to lv, following at
\* most `fuel` placements.
RECURSIVE PathCount(_, _, _)
PathCount(r, lv, fuel) ==
    IF lv = r.world THEN 1
    ELSE IF fuel = 0 THEN 0
    ELSE LET ps == PlacementsOf(r, lv)
             RECURSIVE Sum(_)
             Sum(I) == IF I = {} THEN 0
                       ELSE LET i == CHOOSE k \in I : TRUE
                            IN PathCount(r, r.pvs[i].mother, fuel - 1) + Sum(I \ {i})
         IN Sum(ps)

\* The scene graph is a tree rooted at the world volume.
IsTree(r) ==
    /\ r.world = "world_lv"
    /\ r.world \in r.lvs
    /\ PlacementsOf(r, r.world) = {}
    /\ \A i, j \in 1..Len(r.pvs) : r.pvs[i].name = r.pvs[j].name => i = j
    /\ \A lv \in r.lvs \ {r.world} : Cardinality(PlacementsOf(r, lv)) = 1
    /\ \A lv \in r.lvs : PathCount(r, lv, Len(r.pvs)) = 1

(***************************************************************************)
(* The claims.                                                             *)
(***************************************************************************)

\* C1: when acquiring the metadata source fails and public_geometry is
\* False, construct() raises the fatal RuntimeError of its guard before a
\* registry or any volume exists, calls no builder and returns nothing.
C1_RefusesWithoutSource ==
    (acq = "GitCommandError" /\ ~public_geometry /\ pc # "guard")
        => /\ pc = "failed"
           /\ error = "RuntimeError"
           /\ failedAt = "guard"
           /\ reg = NoRegistry
           /\ calls = << >>
           /\ ~returned

C1_Witness ==
    /\ acq = "GitCommandError"
    /\ ~public_geometry
    /\ pc = "failed"
    /\ error = "RuntimeError"

\* C2 (as claimed): with public_geometry True, construct() does not consult
\* the metadata source, logs the public-data warning and then succeeds:
\* whenever the call is over it has returned a registry.
C2_PublicGeometrySucceeds ==
    (public_geometry /\ Finished /\ ~config.isNone /\ ged_name \in config.keys)
        => /\ acq = "skipped"
           /\ warned
           /\ pc = "done"
           /\ returned
           /\ reg.created

\* C3 (as claimed): with the metadata source available, a resolvable
\* detector and the default selection, construct() completes and returns the
\* world with exactly one placement per default assembly, and every builder
\* call binds the builder's required parameters.
C3_DefaultSelectionBuildsAll ==
    (Finished /\ acq = "ok" /\ assemblies = DEFAULT_ASSEMBLIES
        /\ CoreMergeOutcome(lmeta, config, ged_name) = "ok")
        => /\ pc = "done"
           /\ returned
           /\ reg.world = "world_lv"
           /\ Len(reg.pvs) = Cardinality(DEFAULT_ASSEMBLIES)
           /\ \A a \in DEFAULT_ASSEMBLIES :
                 /\ CallMatches(a)
                 /\ HasPv(reg, PvName(a), LvVar(a), MotherVar(a))

\* C4: with an empty selection and a resolved detector record, construct()
\* does not fail, calls no builder, places no physical volume, and the
\* registry it returns holds the world volume only.
C4_EmptySelectionWorldOnly ==
    (assemblies = {} /\ Resolved)
        => /\ pc # "failed"
           /\ calls = << >>
           /\ reg.pvs = << >>
           /\ (pc = "done" =>
                 /\ returned
                 /\ reg.created
                 /\ reg.world = "world_lv"
                 /\ reg.lvs = {"world_lv"})

C4_Witness ==
    /\ assemblies = {}
    /\ Resolved
    /\ pc = "done"
    /\ returned
    /\ reg.lvs = {"world_lv"}

C6_FailFast ==
    (error # "none" /\ failedAt \in DEFAULT_ASSEMBLIES)
        => /\ pc = "failed"
           /\ ~returned
           /\ Len(calls) >= 1
           /\ calls[Len(calls)] = failedAt
           /\ NoDuplicates(calls)
           /\ \A i \in 1..Len(calls) : IndexOf(calls[i]) <= IndexOf(failedAt)

C6_Witness ==
    /\ pc = "failed"
    /\ failedAt = "vacuum_cavity"
    /\ error = "TypeError"
    /\ {"detector", "cryostat"} \subseteq assemblies
    /\ calls = <<"vacuum_cavity">>

\* C7 (as claimed): with cavity, detector, wrap and holder selected,
\* construct() builds them in that order and nests each in the previous one
\* (cavity in the world, detector in the cavity, wrap in the detector,
\* holder in the wrap); the other selected assemblies are placed in the world.
C7_NestedBuildOrder ==
    (Finished /\ Resolved
        /\ {"vacuum_cavity", "detector", "wrap", "holder"} \subseteq assemblies)
        => /\ Len(calls) >= 4
           /\ SubSeq(calls, 1, 4) = <<"vacuum_cavity", "detector", "wrap", "holder">>
           /\ HasPv(reg, "cavity_pv", "cavity_lv", "world_lv")
           /\ HasPv(reg, "hpge_pv", "detector_lv", "cavity_lv")
           /\ HasPv(reg, "wrap_pv", "wrap_lv", "detector_lv")
           /\ HasPv(reg, "holder_pv", "holder_lv", "wrap_lv")
           /\ \A a \in assemblies \cap
                    {"bottom_plate", "lead_castle", "source", "source_holder", "cryostat"} :
                 HasPv(reg, PvName(a), LvVar(a), "world_lv")

\* C8: every registry construct() creates, and so every one it returns, is a
\* tree: the world volume is its one root and is set as the registry's world,
\* physical-volume names are unique, every other volume has exactly one
\* placement, and each volume is reached from the world by exactly one path.
C8_SceneGraphIsTree == reg.created => IsTree(reg)

C8_Witness ==
    /\ pc = "done"
    /\ returned
    /\ reg.created
    /\ reg.world = "world_lv"

MapKeys(m) == {m[i][1] : i \in DOMAIN m}

Occurs(key, text) ==
    \E i \in 1..(Len(text) - Len(key) + 1) : SubSeq(text, i, i + Len(key) - 1) = key

\* The names of `names` that `text` starts with.
StartsWith(text, names) ==
    {k \in names : Len(k) <= Len(text) /\ SubSeq(text, 1, Len(k)) = k}

Longest(names) == CHOOSE k \in names : \A l \in names : Len(l) <= Len(k)

\* The placeholders written in a text, read left to right, the longest name first.
RECURSIVE PlaceholderTokens(_)
PlaceholderTokens(text) ==
    IF text = << >> THEN {}
    ELSE IF StartsWith(text, PlaceholderNames) = {}
         THEN PlaceholderTokens(Tail(text))
         ELSE LET k == Longest(StartsWith(text, PlaceholderNames))
              IN  {k} \cup PlaceholderTokens(SubSeq(text, Len(k) + 1, Len(text)))

\* The text in which every placeholder of the map stands replaced by the
\* one-decimal form of its own value.
RECURSIVE EveryOccurrenceReplaced(_, _)
EveryOccurrenceReplaced(text, m) ==
    IF text = << >> THEN << >>
    ELSE IF StartsWith(text, MapKeys(m)) = {}
         THEN <<Head(text)>> \o EveryOccurrenceReplaced(Tail(text), m)
         ELSE LET k == Longest(StartsWith(text, MapKeys(m)))
                  v == m[CHOOSE i \in DOMAIN m : m[i][1] = k][2]
              IN  FormatOneDecimal(v)
                  \o EveryOccurrenceReplaced(SubSeq(text, Len(k) + 1, Len(text)), m)

OneDecimal(text) ==
    /\ \E i \in DOMAIN text : text[i] = "."
    /\ Len(text) = (CHOOSE i \in DOMAIN text : text[i] = ".") + 1

C13_UnreplacedPlaceholderIsFatal ==
    parsed # << >> => PlaceholderTokens(template) \subseteq MapKeys(replacements)

\* C14: a call of amend_gdml creates at most one temporary file, and once
\* the call is over, however it ended, that file has been released.
C14_TempFileReleased ==
    /\ temp_acquired <= 1
    /\ temp_released <= temp_acquired
    /\ temp_open <=> temp_acquired = temp_released + 1
    /\ a_pc \in {"idle", "done", "failed"} =>
          /\ ~temp_open
          /\ temp_released = temp_acquired

\* amend_gdml failed while writing the output file, after the parse.
C14_Witness ==
    /\ a_pc = "failed"
    /\ write_file
    /\ parsed # << >>
    /\ a_error = "OSError"
    /\ temp_acquired = 1
    /\ temp_released = 1
    /\ ~temp_open

\* ---- the builders
Called(path) == b_out[path].status # "none"
Built(path) == b_out[path].status = "ok"

CompleteRecord == \A p \in FieldPaths(b_input.builder) : Has(b_input.dims, p)

Leaves(parents, leaves) == Grid(parents, leaves)

\* The fields a builder call reads from its dimension record, from the
\* replacement maps and the solids' arguments of create_volumes.py.
RequiredFields(input, from_gdml) ==
    CASE input.builder \in {"vacuum_cavity", "cryostat"} ->
             {<<f>> : f \in {"width", "thickness", "height",
                             "position_cavity_from_top",
                             "position_cavity_from_bottom"}}
      [] input.builder = "wrap" ->
             Leaves({"outer", "inner"}, {"height_in_mm", "radius_in_mm"})
      [] input.builder = "bottom_plate" ->
             {<<"width">>, <<"depth">>, <<"height">>}
             \cup Leaves({"cavity"}, {"width", "depth", "height"})
      [] input.builder = "th_plate" ->
             Leaves({"plates"}, {"height", "width", "cavity_width"})
      [] input.builder = "lead_castle" ->
             IF input.table_num = 1
             THEN Leaves({"base", "inner_cavity", "cavity", "top", "front"},
                         {"width", "depth", "height"})
             ELSE IF input.table_num = 2 /\ from_gdml
             THEN Leaves({"base", "inner_cavity", "top", "copper_plate"},
                         {"width", "depth", "height"})
             ELSE {}
      [] input.builder = "holder" ->
             (IF input.det_type \in {"bege", "icpc"} /\ from_gdml
              THEN {<<"bottom_cyl">>} ELSE {})
             \cup (IF input.det_type = "bege" \/ (input.det_type = "icpc" /\ from_gdml)
                   THEN Leaves({"rings"}, {"radius_in_mm", "height_in_mm",
                                           "position_top_ring_in_mm"})
                        \cup {<<"cylinder", o, f>> :
                                 o \in {"outer", "inner"},
                                 f \in {"height_in_mm", "radius_in_mm"}}
                   ELSE {})
             \cup (IF input.det_type = "icpc" /\ from_gdml
                   THEN {<<"rings", "position_bottom_ring_in_mm">>,
                         <<"edge", "height_in_mm">>}
                        \cup {<<"bottom_cyl", o, f>> :
                                 o \in {"outer", "inner"},
                                 f \in {"height_in_mm", "radius_in_mm"}}
                   ELSE {})
             \cup (IF from_gdml THEN {} ELSE {<<"rings">>, <<"cylinder">>})

LacksRequired(path) ==
    \E p \in RequiredFields(b_input, path = "gdml") : ~Has(b_input.dims, p)

\* C12: a builder called with a record that lacks a field it reads raises
\* an access error and gives no volume back; it never builds from a default.
C12_MissingFieldFails ==
    \A path \in {"gdml", "python"} :
        (Called(path) /\ LacksRequired(path)) =>
            /\ b_out[path].status = "error"
            /\ b_out[path].error \in {"AttributeError", "KeyError"}
            /\ "solid" \notin DOMAIN b_out[path]

\* create_bottom_plate was given, on both paths, a record without cavity.depth.
C12_Witness ==
    /\ b_input.builder = "bottom_plate"
    /\ Has(b_input.dims, <<"cavity">>)
    /\ ~Has(b_input.dims, <<"cavity", "depth">>)
    /\ b_out.gdml = Raise("AttributeError")
    /\ b_out.python = Raise("AttributeError")

SeqMax(s) == CHOOSE x \in {s[i] : i \in DOMAIN s} : \A i \in DOMAIN s : s[i] <= x
SeqMin(s) == CHOOSE x \in {s[i] : i \in DOMAIN s} : \A i \in DOMAIN s : x <= s[i]

RECURSIVE Boxes(_)
Boxes(solid) ==
    IF solid.kind = "Box" THEN <<(<<solid.pX, solid.pY, solid.pZ>>)>>
    ELSE Boxes(solid.obj1) \o Boxes(solid.obj2)

\* What the two paths are compared by: the z range and the largest radius
\* of a profile, the radii and length of a tube, the boxes of a boolean solid.
DerivedDims(solid) ==
    CASE solid.kind = "GenericPolycone" ->
             <<SeqMin(solid.pZ), SeqMax(solid.pZ), SeqMax(solid.pR)>>
      [] solid.kind = "Tubs" -> <<solid.pRMin, solid.pRMax, solid.pDz>>
      [] OTHER -> Boxes(solid)

SupportsBothPaths ==
    \/ b_input.builder \in {"wrap", "bottom_plate", "th_plate", "cryostat"}
    \/ b_input.builder = "holder" /\ b_input.det_type = "bege"
    \/ b_input.builder = "lead_castle" /\ b_input.table_num = 1

\* C15: for an assembly both paths support, the volume of the template path
\* and the volume of the direct path have the same material name and the
\* same derived dimensions, whatever the dimension record.
C15_PathsEquivalent ==
    (SupportsBothPaths /\ Built("gdml") /\ Built("python")) =>
        /\ b_out.gdml.material = b_out.python.material
        /\ DerivedDims(b_out.gdml.solid) = DerivedDims(b_out.python.solid)

WrapOrBegeHolder ==
    \/ b_input.builder = "wrap"
    \/ b_input.builder = "holder" /\ b_input.det_type = "bege"

\* C16: for the wrap (the bege holder) the template path returns a volume
\* named "Wrap" ("Holder"), the direct path one named "wrap" ("holder"),
\* both made of HD1000 (EN_AW-2011T8).
C16_WrapHolderNames ==
    WrapOrBegeHolder =>
        /\ Built("gdml") =>
              /\ b_out.gdml.name = IF b_input.builder = "wrap" THEN "Wrap" ELSE "Holder"
              /\ b_out.gdml.material =
                    IF b_input.builder = "wrap" THEN "HD1000" ELSE "EN_AW-2011T8"
        /\ Built("python") =>
              /\ b_out.python.name = IF b_input.builder = "wrap" THEN "wrap" ELSE "holder"
              /\ b_out.python.material =
                    IF b_input.builder = "wrap" THEN "HD1000" ELSE "EN_AW-2011T8"

\* C17: with a complete holder record, the icpc holder raises
\* NotImplementedError on the direct path and is built on the template path;
\* a holder that is neither icpc nor bege raises NotImplementedError on both.
C17_HolderTypes ==
    (b_input.builder = "holder" /\ CompleteRecord) =>
        /\ (b_input.det_type = "icpc" /\ Called("python")) =>
              b_out.python = Raise("NotImplementedError")
        /\ (b_input.det_type = "icpc" /\ Called("gdml")) =>
              /\ Built("gdml")
              /\ "solid" \in DOMAIN b_out.gdml
        /\ b_input.det_type \notin {"icpc", "bege"} =>
              \A path \in {"gdml", "python"} :
                  Called(path) => b_out[path] = Raise("NotImplementedError")

\* The icpc holder was asked for on both paths.
C17_Witness ==
    /\ b_input.builder = "holder"
    /\ b_input.det_type = "icpc"
    /\ CompleteRecord
    /\ Built("gdml")
    /\ b_out.python = Raise("NotImplementedError")

\* C18: create_lead_castle raises ValueError on both paths for a table
\* number other than 1 and 2, whatever the record; with a complete record,
\* table 1 is built on both paths, table 2 is built on the template path and
\* raises NotImplementedError on the direct path.
C18_TableNumbers ==
    b_input.builder = "lead_castle" =>
        \A path \in {"gdml", "python"} :
            Called(path) =>
                /\ b_input.table_num \notin {1, 2} => b_out[path] = Raise("ValueError")
                /\ (b_input.table_num = 1 /\ CompleteRecord) => Built(path)
                /\ (b_input.table_num = 2 /\ CompleteRecord) =>
                      IF path = "gdml" THEN Built(path)
                      ELSE b_out[path] = Raise("NotImplementedError")

\* Table 2 was asked for on both paths.
C18_Witness ==
    /\ b_input.builder = "lead_castle"
    /\ b_input.table_num = 2
    /\ CompleteRecord
    /\ Built("gdml")
    /\ b_out.python = Raise("NotImplementedError")

\* C19: the vacuum cavity has radius (width - 2 thickness)/2 and runs in z
\* from 0 to height - position_cavity_from_top - position_cavity_from_bottom;
\* the cavity bored in the directly constructed cryostat has that radius and
\* that length, end_cavity_z - start_cavity_z.
C19_CavityFitsCryostat ==
    (b_input.builder \in {"vacuum_cavity", "cryostat"} /\ Built("python")) =>
        LET m == b_input.dims
            solid == b_out.python.solid
            cavity == CreateVacuumCavity(m).solid
        IN  /\ 2 * SeqMax(cavity.pR) = m.width - 2 * m.thickness
            /\ SeqMin(cavity.pZ) = 0
            /\ SeqMax(cavity.pZ) = m.height - m.position_cavity_from_top
                                   - m.position_cavity_from_bottom
            /\ b_input.builder = "vacuum_cavity" => solid = cavity
            /\ b_input.builder = "cryostat" =>
                  /\ solid.pR[4] = SeqMax(cavity.pR)
                  /\ solid.pR[5] = SeqMax(cavity.pR)
                  /\ solid.pZ[5] - solid.pZ[4] = SeqMax(cavity.pZ) - SeqMin(cavity.pZ)

\* The cryostat was constructed directly from a record finer than 0.1 mm.
C19_Witness ==
    /\ b_input.builder = "cryostat"
    /\ Built("python")
    /\ b_input.dims.width = 20004
    /\ b_input.dims.thickness = 220

\* C20: in the directly constructed table-1 lead castle the secondary cavity
\* sits, relative to the inner cavity, at
\* y = inner_cavity.depth/2 + (base.depth - inner_cavity.depth)/4 and
\* z = (inner_cavity.height - cavity.height)/2.
C20_SecondaryCavityOffset ==
    (b_input.builder = "lead_castle" /\ b_input.table_num = 1 /\ Built("python")) =>
        LET m == b_input.dims
            total_cavity == b_out.python.solid.obj1.obj1.obj2
        IN  /\ total_cavity.name = "total_cavity_1"
            /\ total_cavity.obj1.name = "inner_cavity_base_1"
            /\ total_cavity.obj2.name = "cavity_base_1"
            /\ total_cavity.tra2[1] = 0
            /\ 4 * total_cavity.tra2[2] =
                  2 * m.inner_cavity.depth + (m.base.depth - m.inner_cavity.depth)
            /\ 2 * total_cavity.tra2[3] = m.inner_cavity.height - m.cavity.height

\* The table-1 castle was constructed directly, with a base and an inner
\* cavity that differ in how far they exceed their round depth.
C20_Witness ==
    /\ b_input.builder = "lead_castle"
    /\ b_input.table_num = 1
    /\ Built("python")
    /\ b_input.dims.base.depth = 40020
    /\ b_input.dims.inner_cavity.depth = 20004

\* C21: the directly constructed table-1 lead castle is assembled in a fixed
\* order: the base box is the first solid created; the cavities are joined
\* and subtracted from the base; then the top is unioned, then the front;
\* along that chain (base, base minus cavities, plus top, plus front) each
\* boolean step has the result of the step before it as its first operand,
\* and the solid of the returned volume is the last union.
C21_CastleConstructionOrder ==
    (b_input.builder = "lead_castle" /\ b_input.table_num = 1 /\ Built("python")) =>
        LET s == LeadCastleSolids(b_input.dims)
            Step(i) == CHOOSE j \in DOMAIN s : s[j].name =
                          <<"base_lead_castle_1", "total_cavity_1", "base_cavity_1",
                            "top_base_1", "final_lead_castle_1">>[i]
        IN  /\ Step(1) = 1
            /\ \A i \in 1..4 : Step(i) < Step(i + 1)
            /\ \A j \in DOMAIN s : s[j].kind # "Box" => Step(2) <= j
            /\ s[Step(2)].kind = "Union"
            /\ {s[Step(2)].obj1.name, s[Step(2)].obj2.name}
                  = {"inner_cavity_base_1", "cavity_base_1"}
            /\ s[Step(3)].kind = "Subtraction"
            /\ s[Step(3)].obj1 = s[Step(1)]
            /\ s[Step(3)].obj2 = s[Step(2)]
            /\ s[Step(4)].kind = "Union"
            /\ s[Step(4)].obj1 = s[Step(3)]
            /\ s[Step(4)].obj2.name = "top_lead_castle_1"
            /\ s[Step(5)].kind = "Union"
            /\ s[Step(5)].obj1 = s[Step(4)]
            /\ s[Step(5)].obj2.name = "front_1"
            /\ Step(5) = Len(s)
            /\ b_out.python.solid = s[Len(s)]

\* The table-1 castle was constructed directly from a complete record whose
\* top and front boxes differ.
C21_Witness ==
    /\ b_input.builder = "lead_castle"
    /\ b_input.table_num = 1
    /\ Built("python")
    /\ b_out.python.solid.kind = "Union"
    /\ b_out.python.solid.obj2.name = "front_1"
    /\ b_input.dims.top.height = 5004
    /\ b_input.dims.front.height = 10020

\* The materials that stand for vacuum: create_vacuum_cavity fills the
\* cavity with G4_Galactic.
VacuumEquivalent == {"G4_Galactic"}

\* C23 (as claimed): the world volume construct() creates is the same box
\* whatever the configuration and the selection, and its material is
\* vacuum-equivalent.
C23_WorldFixedVacuum ==
    reg.created =>
        /\ world_solid = Box("world", 1000000, 1000000, 1000000)
        /\ world_material \in VacuumEquivalent

\* C24 (as claimed): construct() for a set-up measured on table 2, whose
\* lead castle carries the copper plate, returns a registry that holds a
\* physical volume named "Copper_plate_PV".
C24_CopperPlatePlaced ==
    (Finished /\ Resolved /\ "lead_castle" \in assemblies)
        => /\ pc = "done"
           /\ returned
           /\ \E i \in 1..Len(reg.pvs) : reg.pvs[i].name = "Copper_plate_PV"

\* The assemblies construct() places inside the vacuum cavity.
Nested == {"detector", "wrap", "holder"}

\* The first of them, in the order of construct(), that a selection holds.
FirstNested(S) ==
    CHOOSE a \in S \cap Nested : \A b \in S \cap Nested : IndexOf(a) <= IndexOf(b)

\* C30: with detector, wrap or holder selected, construct() returns a
\* registry only if vacuum_cavity is selected too; with vacuum_cavity left
\* out and the detector record resolved, it fails at the first of the three
\* that is selected, places none of them and returns nothing; a name of the
\* selection that is no known assembly causes no builder call, no volume, no
\* placement and no failure.
C30_NestedNeedCavity ==
    /\ (assemblies \cap Nested # {} /\ returned) => "vacuum_cavity" \in assemblies
    /\ (Finished /\ Resolved /\ assemblies \cap Nested # {}
          /\ "vacuum_cavity" \notin assemblies)
          => /\ pc = "failed"
             /\ ~returned
             /\ failedAt = FirstNested(assemblies)
             /\ calls[Len(calls)] = FirstNested(assemblies)
             /\ \A i \in 1..Len(reg.pvs) : reg.pvs[i].mother # "cavity_lv"
    /\ \A i \in 1..Len(calls) : calls[i] \in assemblies \cap DEFAULT_ASSEMBLIES
    /\ failedAt \in {"none", "guard", "merge"} \cup (assemblies \cap DEFAULT_ASSEMBLIES)
    /\ reg.lvs \subseteq {"world_lv"} \cup {LvVar(a) : a \in assemblies \cap DEFAULT_ASSEMBLIES}
    /\ \A i \in 1..Len(reg.pvs) :
          reg.pvs[i].name \in {PvName(a) : a \in assemblies \cap DEFAULT_ASSEMBLIES}

\* Detector and wrap were selected together with an unknown name and without
\* the vacuum cavity: construct() failed placing the detector.
C30_Witness ==
    /\ pc = "failed"
    /\ Resolved
    /\ {"detector", "wrap", UnknownName} \subseteq assemblies
    /\ "vacuum_cavity" \notin assemblies
    /\ failedAt = "detector"
    /\ error = "UnboundLocalError"
    /\ calls = <<"detector">>

\* The source label parse_measurement gave back is the one it was given.
Unrenamed == parse_out.source = Join(<<fields[1], fields[2]>>)

\* C22: parsing "<source>_<HSn>_<position>_<id>" gives position and id as
\* the third and the fourth field and source as "<source>_<HSn>", except for
\* the one label of the legacy rename: cs_HS2, am_HS1 and am_HS6 are kept,
\* and exactly one label of the grammar is given another name.
C22_ParseMeasurement ==
    /\ parse_out # NotCalled =>
          /\ parse_out.status = "ok"
          /\ parse_out.position = fields[3]
          /\ parse_out.id = fields[4]
          /\ Join(<<fields[1], fields[2]>>) # legacy_label => Unrenamed
          /\ Join(<<fields[1], fields[2]>>) \in KeptLabels => Unrenamed
    /\ Cardinality({l \in SourceLabels : LegacyRename(l, legacy_label) # l}) = 1

\* am_HS6_top_dlt was parsed while the legacy label is another am label.
C22_Witness ==
    /\ fields = <<(<<"a", "m">>), (<<"H", "S", "6">>), (<<"t", "o", "p">>),
                  (<<"d", "l", "t">>)>>
    /\ legacy_label = Join(<<(<<"a", "m">>), (<<"H", "S", "2">>)>>)
    /\ measurement = <<"a", "m", "_", "H", "S", "6", "_", "t", "o", "p", "_", "d", "l", "t">>
    /\ parse_out.status = "ok"
    /\ parse_out.source = <<"a", "m", "_", "H", "S", "6">>
    /\ parse_out.position = <<"t", "o", "p">>
    /\ parse_out.id = <<"d", "l", "t">>

\* C25 (as claimed): a lookup of an identifier whose letter has a reference
\* record returns a record borrowed from the reference record of key
\* <first letter>99000A, with name the identifier and, for a diode,
\* production.order the integer of its 2nd and 3rd characters and
\* production.slice "A"; keys() of either proxy returns the stored keys.
C25_ProxyLookupAndKeys ==
    /\ (last_call.op = "getitem" /\ last_call.status = "ok") =>
          LET m == results[Len(results)]
          IN  /\ m.production = ReferenceKey(m.name)
              /\ m.production \in StoredKeys
              /\ m.proxy = "diodes" =>
                    /\ objects[m.production].order = ProductionOrder(m.name)
                    /\ objects[m.production].slice = "A"
    /\ last_call.op \in {"diodes.keys", "cryostat.keys"} =>
          /\ last_call.status = "ok"
          /\ last_call.value = StoredKeys

\* C29 (as claimed): a lookup modifies neither the stored reference record
\* nor a record an earlier lookup returned: every returned diode record
\* keeps the production.order of its own identifier, and the production
\* object of every stored reference record is as it was stored.
C29_LookupIsFrame ==
    /\ \A i \in DOMAIN results :
          results[i].proxy = "diodes" =>
              objects[results[i].production].order = ProductionOrder(results[i].name)
    /\ \A k \in StoredKeys : objects[k] = OriginalProduction(k)

\* The source types either source builder has a replacement map for.
SupportedSourceTypes == {"am_collimated", "am", "ba", "co", "th"}

\* C26: create_source and create_source_holder called with from_gdml=False
\* raise NotImplementedError for every source type, supported or not; called
\* with from_gdml=True and an unsupported source type they raise RuntimeError
\* and give no volume.
C26_SourcePathCheckFirst ==
    s_out # NotCalled =>
        /\ ~s_input.from_gdml => s_out = Raise("NotImplementedError")
        /\ (s_input.from_gdml /\ s_input.source_type \notin SupportedSourceTypes) =>
              s_out = Raise("RuntimeError")

C26_Witness ==
    /\ s_input.builder = "source_holder"
    /\ s_input.source_type \notin SupportedSourceTypes
    /\ ~s_input.from_gdml
    /\ s_out = Raise("NotImplementedError")

\* C27: create_source_holder on the template path with a supported source
\* type and a complete record gives a volume, and the volume it gives is of
\* the lateral thorium template exactly for "th" with meas_type "lat", of
\* the americium template for "am", and of the generic template otherwise
\* ("th" with another meas_type, am_collimated, ba, co).
C27_SourceHolderTemplate ==
    (/\ s_input.builder = "source_holder"
     /\ s_out # NotCalled
     /\ s_input.from_gdml
     /\ s_input.source_type \in SupportedSourceTypes) =>
        /\ s_input.holder_dims \in {HolderRecord(d) : d \in Offsets} =>
              s_out.status = "ok"
        /\ s_out.status = "ok" =>
              s_out.solid.name =
                  IF s_input.source_type = "th" /\ s_input.meas_type = "lat"
                  THEN "source_holder_th_lat_dummy.gdml"
                  ELSE IF s_input.source_type = "am"
                  THEN "source_holder_am_dummy.gdml"
                  ELSE "source_holder_dummy.gdml"

C27_Witness ==
    /\ s_input.builder = "source_holder"
    /\ s_input.source_type = "th"
    /\ s_input.meas_type = "top"
    /\ s_out.status = "ok"
    /\ s_out.solid.name = "source_holder_dummy.gdml"

\* C28: in every replacement map a builder gives amend_gdml, a key that
\* occurs inside another key of the map comes after it, and once the loop
\* of replacements has run the text has every placeholder replaced by the
\* one-decimal form of its own value.
C28_LongerKeyFirst ==
    /\ \A i, j \in DOMAIN replacements :
          (i # j /\ Occurs(replacements[i][1], replacements[j][1])) => j < i
    /\ (a_pc \notin {"idle", "read"} /\ idx = Len(replacements)) =>
          gdml_text = EveryOccurrenceReplaced(template, replacements)

C28_Witness ==
    /\ a_pc = "done"
    /\ \E i, j \in DOMAIN replacements :
          /\ i # j
          /\ Occurs(replacements[i][1], replacements[j][1])
          /\ template = replacements[j][1] \o <<" ">> \o replacements[i][1]
          /\ gdml_text = FormatOneDecimal(replacements[j][2]) \o <<" ">>
                         \o FormatOneDecimal(replacements[i][2])
=============================================================================
